---- MODULE Spec2Model ----
(***************************************************************************)
(* A model of the snooker_stats integration: the snooker.org API client    *)
(* (api.py), the shared player cache and the five pollers (coordinator.py) *)
(* and the entry setup / deferred initialisation tasks (__init__.py).      *)
(*                                                                         *)
(* Python values are records [t, i, s] of one shape: t is the type tag,    *)
(* i the integer value, s the string value as a sequence of one-character  *)
(* strings.  A dict is a function from its keys to values.  One step of a  *)
(* task runs from one await to the next: the code between two suspension   *)
(* points is atomic under the event loop.                                  *)
(***************************************************************************)
EXTENDS Integers, Sequences, FiniteSets, TLC

\* ------------------------------------------------------------ Python values

None == [t |-> "none", i |-> 0, s |-> <<>>]
PyInt(n) == [t |-> "int", i |-> n, s |-> <<>>]
PyStr(x) == [t |-> "str", i |-> 0, s |-> x]

\* Python truthiness of a value: None, 0 and "" are falsy.
Truthy(v) ==
    CASE v.t = "int" -> v.i # 0
      [] v.t = "str" -> v.s # <<>>
      [] OTHER -> FALSE

\* key in d
Has(d, k) == k \in DOMAIN d

\* d.get(k): None when the key is absent
Get(d, k) == IF Has(d, k) THEN d[k] ELSE None

\* d.get(k, default)
GetOr(d, k, default) == IF Has(d, k) THEN d[k] ELSE default

\* a or b
Or(a, b) == IF Truthy(a) THEN a ELSE b

\* {**d, k: v}
With(d, k, v) == [x \in DOMAIN d \cup {k} |-> IF x = k THEN v ELSE d[x]]

\* bool(d) of a dict: an empty dict is falsy.
DictTruthy(d) == DOMAIN d # {}

\* ------------------------------------------------------------------ strings

Digit == <<"0", "1", "2", "3", "4", "5", "6", "7", "8", "9">>

IsDigit(c) == \E k \in 1..10 : Digit[k] = c

DigitVal(c) == (CHOOSE k \in 1..10 : Digit[k] = c) - 1

RECURSIVE NatToStr(_)
NatToStr(n) == IF n < 10 THEN <<Digit[n + 1]>> ELSE NatToStr(n \div 10) \o <<Digit[(n % 10) + 1]>>

\* str(n) of an int
IntToStr(n) == IF n < 0 THEN <<"-">> \o NatToStr(-n) ELSE NatToStr(n)

RECURSIVE LStrip(_)
LStrip(x) == IF x # <<>> /\ Head(x) = " " THEN LStrip(Tail(x)) ELSE x

RECURSIVE RStrip(_)
RStrip(x) == IF x # <<>> /\ x[Len(x)] = " " THEN RStrip(SubSeq(x, 1, Len(x) - 1)) ELSE x

\* x.strip()
Strip(x) == RStrip(LStrip(x))

RECURSIVE DigitsToNat(_)
DigitsToNat(x) == IF x = <<>> THEN 0 ELSE 10 * DigitsToNat(SubSeq(x, 1, Len(x) - 1)) + DigitVal(x[Len(x)])

AllDigits(x) == x # <<>> /\ \A k \in 1..Len(x) : IsDigit(x[k])

\* The digits of a stripped integer literal, without its sign.
Unsigned(x) == IF Strip(x) # <<>> /\ Head(Strip(x)) \in {"-", "+"} THEN Tail(Strip(x)) ELSE Strip(x)

\* int(v) succeeds: an int, or a string holding an optionally signed decimal.
CanInt(v) ==
    CASE v.t = "int" -> TRUE
      [] v.t = "str" -> AllDigits(Unsigned(v.s))
      [] OTHER -> FALSE

\* int(v), where CanInt(v)
ToInt(v) ==
    IF v.t = "int" THEN v.i
    ELSE IF Head(Strip(v.s)) = "-" THEN 0 - DigitsToNat(Unsigned(v.s)) ELSE DigitsToNat(Unsigned(v.s))

\* str(v)
ToStr(v) ==
    CASE v.t = "str" -> v.s
      [] v.t = "int" -> IntToStr(v.i)
      [] OTHER -> <<"N", "o", "n", "e">>

\* ------------------------------------------------------------ JSON payloads

\* {"k": v, ...} as a payload object
Obj(r) == r

\* {}
EmptyDict == [k \in {} |-> None]

\* A decoded JSON payload: an object, a list (of objects and other members) or
\* anything else (a number, a string, null).
JObj(d) == [kind |-> "dict", d |-> d, items |-> <<>>]
JList(items) == [kind |-> "list", d |-> EmptyDict, items |-> items]
JOther == [kind |-> "other", d |-> EmptyDict, items |-> <<>>]

\* The members of a JSON list: an object, or a member that is no object.
Item(d) == [isdict |-> TRUE, d |-> d]
NonDict == [isdict |-> FALSE, d |-> EmptyDict]

\* [f(x) for x in seq]
RECURSIVE DictsOf(_)
DictsOf(items) == IF items = <<>> THEN <<>> ELSE <<Head(items).d>> \o DictsOf(Tail(items))

IsDictItem(x) == x.isdict

\* A normalisation that takes the first object of a list wherever it stands.
_first_dict_anywhere(payload) ==
    CASE payload.kind = "list" ->
           IF SelectSeq(payload.items, IsDictItem) # <<>> THEN SelectSeq(payload.items, IsDictItem)[1].d
           ELSE EmptyDict
      [] payload.kind = "dict" -> payload.d
      [] OTHER -> EmptyDict

\* api._first_dict
_first_dict(payload) ==
    CASE payload.kind = "list" ->
           IF payload.items # <<>> /\ payload.items[1].isdict THEN payload.items[1].d ELSE EmptyDict
      [] payload.kind = "dict" -> payload.d
      [] OTHER -> EmptyDict

\* api._as_list
_as_list(payload) ==
    CASE payload.kind = "list" -> DictsOf(SelectSeq(payload.items, IsDictItem))
      [] payload.kind = "dict" -> <<payload.d>>
      [] OTHER -> <<>>

\* ------------------------------------------------- coordinator.py helpers

PlayerWord == <<"P", "l", "a", "y", "e", "r", " ">>

NameKeys == <<"Name", "FullName", "DisplayName">>

\* The first of Name, FullName, DisplayName that is present and truthy, or 0.
FirstNameKey(p) ==
    IF \E k \in 1..3 : Has(p, NameKeys[k]) /\ Truthy(p[NameKeys[k]])
    THEN CHOOSE k \in 1..3 :
           /\ Has(p, NameKeys[k]) /\ Truthy(p[NameKeys[k]])
           /\ \A j \in 1..(k - 1) : ~(Has(p, NameKeys[j]) /\ Truthy(p[NameKeys[j]]))
    ELSE 0

\* A first and last name joined as they come, nothing trimmed.
JoinedNameUntrimmed(p) ==
    ToStr(GetOr(p, "FirstName", PyStr(<<>>))) \o <<" ">> \o ToStr(GetOr(p, "LastName", PyStr(<<>>)))

\* (fn + " " + ln).strip() of the stripped FirstName and LastName
JoinedName(p) ==
    Strip(Strip(ToStr(GetOr(p, "FirstName", PyStr(<<>>)))) \o <<" ">>
          \o Strip(ToStr(GetOr(p, "LastName", PyStr(<<>>)))))

\* A name resolution without the last fallback: the joined first and last
\* name, empty or not.
NameWithoutFallback(p) ==
    IF FirstNameKey(p) # 0 THEN ToStr(p[NameKeys[FirstNameKey(p)]]) ELSE JoinedName(p)

\* coordinator._player_name_from_payload
_player_name_from_payload(p) ==
    IF FirstNameKey(p) # 0 THEN ToStr(p[NameKeys[FirstNameKey(p)]])
    ELSE IF JoinedName(p) # <<>> THEN JoinedName(p)
    ELSE PlayerWord \o ToStr(GetOr(p, "ID", PyStr(<<"?">>)))

SeasonKeys == <<"Season", "ID", "CurrentSeason", "SeasonID">>

\* The candidate key is skipped: its value is None or "", or int() raises.
SeasonKeySkipped(payload, key) ==
    \/ Get(payload, key).t = "none"
    \/ Get(payload, key) = PyStr(<<>>)
    \/ ~CanInt(Get(payload, key))

\* An extraction that takes the last usable candidate key, not the first.
ExtractSeasonLast(payload) ==
    IF \A k \in 1..4 : SeasonKeySkipped(payload, SeasonKeys[k])
    THEN [ok |-> FALSE, v |-> 0]
    ELSE LET k == CHOOSE k \in 1..4 :
                    /\ ~SeasonKeySkipped(payload, SeasonKeys[k])
                    /\ \A j \in (k + 1)..4 : SeasonKeySkipped(payload, SeasonKeys[j])
         IN  [ok |-> TRUE, v |-> ToInt(payload[SeasonKeys[k]])]

\* An extraction that gives season 0 when no candidate key is usable.
ExtractSeasonOrZero(payload) ==
    IF \A k \in 1..4 : SeasonKeySkipped(payload, SeasonKeys[k])
    THEN [ok |-> TRUE, v |-> 0]
    ELSE LET k == CHOOSE k \in 1..4 :
                    /\ ~SeasonKeySkipped(payload, SeasonKeys[k])
                    /\ \A j \in 1..(k - 1) : SeasonKeySkipped(payload, SeasonKeys[j])
         IN  [ok |-> TRUE, v |-> ToInt(payload[SeasonKeys[k]])]

\* coordinator._extract_season: [ok, v]; ok = FALSE is the ValueError.
_extract_season(payload) ==
    IF \A k \in 1..4 : SeasonKeySkipped(payload, SeasonKeys[k])
    THEN [ok |-> FALSE, v |-> 0]
    ELSE LET k == CHOOSE k \in 1..4 :
                    /\ ~SeasonKeySkipped(payload, SeasonKeys[k])
                    /\ \A j \in 1..(k - 1) : SeasonKeySkipped(payload, SeasonKeys[j])
         IN  [ok |-> TRUE, v |-> ToInt(payload[SeasonKeys[k]])]

\* ----------------------------------------------------------- configuration

\* entry.options[CONF_TOURS]: the tour codes polled.
Tours == <<<<"m", "a", "i", "n">>, <<"q">>>>

\* ------------------------------------------------------------------ bounds

\* Refresh cycles (poller cycles and cache refreshes) started in one behaviour.
MaxCycles == 2

\* The last day the clock is advanced to.
MaxDay == 31

\* Requests the server answers in one call of the client, the 403s among them.
MaxAttempts == 3

\* The raw events of one build of the events.
MaxEvents == 3

\* The raw upcoming matches of the first tour in one build of the result.
MaxMatches == 3

\* The times an instance is set up in one behaviour.
MaxSetups == 3

\* --------------------------------------------------------- the environment

D1 == <<"1">>
D2 == <<"2">>
Ann == <<"A", "n", "n">>
Bob == <<"B", "o", "b">>

\* What GET ?p=<pid> answers: a named player as an object, a player with
\* blank names as a one-element list, or an empty list.
PlayerJsons(pid) ==
    CASE pid = 1 -> {JObj(Obj([Name |-> PyStr(Ann), ID |-> PyInt(1)]))}
      [] pid = 2 -> {JList(<<Item(Obj([Name |-> PyStr(<<>>), FirstName |-> PyStr(<<" ">>),
                                       LastName |-> PyStr(<<>>), ID |-> PyInt(2)]))>>)}
      [] OTHER -> {JList(<<>>)}

\* What GET ?t=14 may answer for a tour.
UpcomingJsons ==
    {JList(<<Item(Obj([Player1ID |-> PyInt(1), Player2ID |-> PyInt(0), Date |-> PyStr(D2), EventID |-> PyInt(7)])),
             Item(Obj([Player1ID |-> PyInt(2), Player2ID |-> PyInt(1)]))>>),
     JList(<<Item(Obj([P1 |-> PyStr(<<"0">>), StartDate |-> PyStr(D1)]))>>),
     JObj(Obj([Player1ID |-> PyInt(1), ScheduledDate |-> PyStr(D1)]))}

\* What GET ?t=17 may answer for a tour.
ScoresJsons ==
    {JList(<<Item(Obj([ID |-> PyInt(5), EventID |-> PyInt(7), Player1ID |-> PyInt(1),
                       Player2ID |-> PyStr(<<"-", "1">>), Score1 |-> PyInt(3), Score2 |-> PyStr(<<"1">>),
                       Status |-> PyInt(1), Unfinished |-> PyInt(1), ScheduledDate |-> PyStr(D1)])),
             NonDict>>),
     JObj(Obj([ID |-> PyInt(3), Player1ID |-> PyInt(0)])),
     JList(<<Item(Obj([ID |-> PyInt(4), Player1ID |-> PyInt(2), Score1 |-> PyStr(<<"x">>)]))>>)}

\* What GET ?t=20 may answer.
SeasonJsons ==
    {JObj(Obj([Season |-> PyInt(2024)])),
     JList(<<Item(Obj([Season |-> PyStr(<<>>), SeasonID |-> PyStr(<<"2", "0", "2", "4">>)]))>>),
     JObj(Obj([Season |-> PyStr(<<"x">>)])),
     JList(<<>>)}

\* What GET ?rt=...&s=<season> may answer.
RankingJsons ==
    {JList(<<Item(Obj([PlayerID |-> PyInt(1), ID |-> PyInt(9)])), Item(Obj([ID |-> PyStr(<<"2">>)]))>>),
     JObj(Obj([PlayerID |-> PyInt(0)])),
     JList(<<Item(Obj([PlayerID |-> PyStr(<<"x">>)])), NonDict>>)}

\* What GET ?t=5&s=<season> may answer for a tour.
EventsJsons ==
    {JList(<<Item(Obj([ID |-> PyInt(7), Name |-> PyStr(Ann), City |-> PyStr(Bob)])),
             Item(Obj([EventID |-> PyStr(<<"7">>), EventName |-> PyStr(Bob)]))>>),
     JList(<<Item(Obj([EID |-> PyInt(3)])), Item(Obj([ID |-> PyStr(<<"x">>)])), NonDict>>),
     JOther}

\* What a client request gives its caller: the decoded payload, or the
\* exception _get_json re-raises (a transport or HTTP error).
ApiResults(jsons) == {[ok |-> TRUE, json |-> j] : j \in jsons} \cup {[ok |-> FALSE, json |-> JOther]}

\* ------------------------------------------------------------------- state

Pollers == {"season", "rankings", "upcoming", "events", "scores"}

\* The pollers and the monthly refresh of the player cache.
Tasks == Pollers \cup {"monthly"}

VARIABLES
    players,              \* PlayerCache.players: player id -> display name
    last_refreshed,       \* PlayerCache.last_refreshed: None or an ISO string
    persisted,            \* the record of the Store, keys as strings
    data,                 \* coordinator.data of each poller
    last_update_success,  \* coordinator.last_update_success of each poller
    last_exception,       \* the exception that ended the last cycle of each task
    raised,               \* what was raised inside the last cycle of each task, and where
    pc,                   \* the await each task is suspended at
    loc,                  \* the local variables of each task's coroutine
    cycles,               \* refresh cycles each task has started so far
    clock,                \* utcnow(), in days
    setup,                \* where async_setup_entry is
    init,                 \* the task of _async_initialize_entry
    bg,                   \* the task of _async_refresh_player_cache_task
    first,                \* the task of _async_refresh_all_coordinators
    registry,             \* hass.data[DOMAIN] for the entry, and the services
    client,               \* a call of a method of SnookerOrgApi
    applied,              \* a call of a helper function: its arguments and what it gave
    services              \* the instances in hass.data[DOMAIN] and a call of a refresh service

\* The pollers and the cache.
work == <<players, last_refreshed, persisted, data, last_update_success, last_exception, raised, pc, loc, cycles, clock>>

\* The entry: its setup, its tasks and what it has registered.
life == <<setup, init, bg, first, registry>>

vars == <<work, life, client, applied, services>>

\* The cycles started so far, of all tasks.
Started ==
    cycles["season"] + cycles["rankings"] + cycles["upcoming"] + cycles["events"] + cycles["scores"]
      + cycles["monthly"]

\* ------------------------------------------------------------ player cache

NoPlayers == [i \in {} |-> <<>>]

NoRecord == [exists |-> FALSE, players |-> [k \in {} |-> <<>>], last_refreshed |-> None]

\* The dict save_player_cache hands to Store.async_save.
SaveRecord(ps, last) ==
    [exists |-> TRUE,
     players |-> [k \in {IntToStr(i) : i \in DOMAIN ps} |-> ps[ToInt(PyStr(k))]],
     last_refreshed |-> last]

\* now.isoformat() and dt_util.parse_datetime, of a time in days
IsoFormat(day) == PyStr(IntToStr(day))

\* A load that does not read the stamp.
load_player_cache_unstamped(record) ==
    [players |-> [i \in {ToInt(PyStr(k)) : k \in DOMAIN record.players} |->
                    record.players[CHOOSE k \in DOMAIN record.players : ToInt(PyStr(k)) = i]],
     last_refreshed |-> None]

\* coordinator.load_player_cache: [players, last_refreshed]
load_player_cache(record) ==
    [players |-> [i \in {ToInt(PyStr(k)) : k \in DOMAIN record.players} |->
                    record.players[CHOOSE k \in DOMAIN record.players : ToInt(PyStr(k)) = i]],
     last_refreshed |-> record.last_refreshed]

\* f"#{pid}"
Placeholder(pid) == <<"#">> \o IntToStr(pid)

\* sorted(ids) of a set of ints
RECURSIVE Sorted(_)
Sorted(S) ==
    IF S = {} THEN <<>>
    ELSE LET m == CHOOSE x \in S : \A y \in S : x <= y
         IN  <<m>> \o Sorted(S \ {m})

\* ---------------------------------------------------------- exceptions

\* Nothing was raised.
NoRaise == [type |-> "none", site |-> "none"]

\* An exception of the given type raised in the body of a coroutine, or
\* inside the backfill block of a poller.
InBody(type) == [type |-> type, site |-> "body"]
InBackfill(type) == [type |-> type, site |-> "backfill"]

\* A handler that returned what the cycle had built when it failed, not
\* raising: the failure would be published as a result.
PartialReturned(cause, partial, empty) == [kind |-> "return", raised |-> InBody(cause), result |-> partial]

\* except Exception as err: raise UpdateFailed(...) from err, of every
\* _async_update_data: the cycle's outcome, whatever was built so far.
UpdateFailed(cause, partial, empty) == [kind |-> "UpdateFailed", raised |-> InBody(cause), result |-> empty]

\* return result
Return(result) == [kind |-> "return", raised |-> NoRaise, result |-> result]

\* DataUpdateCoordinator: a returned result is published, a raised
\* UpdateFailed keeps the data and clears last_update_success.
Finish(p, outcome) ==
    /\ data' = [data EXCEPT ![p] = IF outcome.kind = "return" THEN outcome.result ELSE @]
    /\ last_update_success' = [last_update_success EXCEPT ![p] = (outcome.kind = "return")]
    /\ last_exception' = [last_exception EXCEPT ![p] = IF outcome.kind = "return" THEN "none" ELSE outcome.kind]
    /\ raised' = [raised EXCEPT ![p] = outcome.raised]
    /\ pc' = [pc EXCEPT ![p] = "idle"]

\* paced_player_fetch's locals: the ids asked for and the payloads fetched.
NoFetch == [ids |-> <<>>, out |-> [i \in {} |-> EmptyDict]]

\* out[pid] = await self.get_player(pid), then the sleep
Fetched(f, json) ==
    LET pid == f.ids[1]
    IN  [ids |-> Tail(f.ids),
         out |-> [i \in DOMAIN f.out \cup {pid} |-> IF i = pid THEN _first_dict(json) ELSE f.out[i]]]

\* A merge that makes the fetched batch the whole mapping.
MergedReplaces(ps, out) == [i \in DOMAIN out |-> _player_name_from_payload(out[i])]

\* for pid, payload in players_payload.items(): cache.players[pid] = ...
Merged(ps, out) ==
    [i \in DOMAIN ps \cup DOMAIN out |-> IF i \in DOMAIN out THEN _player_name_from_payload(out[i]) ELSE ps[i]]

\* A fetch that wrote every player into the cache as it arrived: what it
\* had fetched would stay when it fails.
FetchAbortedKeepsFetched(ps, out) == Merged(ps, out)

\* paced_player_fetch raises or is cancelled: `out` is its local and goes
\* with it, the cache is as it was.
FetchAborted(ps, out) == ps

\* ------------------------------------------------------- string ordering

\* The characters of the model's strings, in code point order.
Ascii ==
    <<" ", "#", "+", "-", "0", "1", "2", "3", "4", "5", "6", "7", "8", "9", ":", "?",
      "A", "B", "N", "P", "T", "a", "b", "e", "i", "l", "m", "n", "o", "q", "r", "x", "y">>

CharRank(c) == CHOOSE k \in 1..Len(Ascii) : Ascii[k] = c

\* a <= b for Python strings
RECURSIVE StrLE(_, _)
StrLE(a, b) ==
    IF a = <<>> THEN TRUE
    ELSE IF b = <<>> THEN FALSE
    ELSE IF Head(a) = Head(b) THEN StrLE(Tail(a), Tail(b))
    ELSE CharRank(Head(a)) < CharRank(Head(b))

\* ------------------------------------------------ upcoming-matches poller

NoUpcoming == [has |-> FALSE, count |-> 0, matches |-> <<>>]

UpcomingLocals == [tour |-> 0, all_matches |-> <<>>, decorated |-> <<>>, fetch |-> NoFetch, snap |-> NoRecord]

\* len(tour_matches) or {**match, "Tour": tr} raises TypeError: the payload
\* is no list of objects (get_upcoming_matches returns it as decoded).
NotIterableAsDicts(json) ==
    \/ json.kind = "other"
    \/ json.kind = "dict" /\ DictTruthy(json.d)
    \/ json.kind = "list" /\ \E k \in 1..Len(json.items) : ~json.items[k].isdict

\* [{**match, "Tour": tr} for match in tour_matches]
RECURSIVE Tagged(_, _)
Tagged(items, tr) ==
    IF items = <<>> THEN <<>>
    ELSE <<With(Head(items).d, "Tour", PyStr(tr))>> \o Tagged(Tail(items), tr)

\* as_int of UpcomingMatchesCoordinator: int(pid), None when it raises
UpcomingAsInt(v) == IF CanInt(v) THEN PyInt(ToInt(v)) ELSE None

Or3(m, a, b, c) == Or(Or(Get(m, a), Get(m, b)), Get(m, c))

\* A normalized match that carries names as the matches of the scores
\* poller do.
UpcomingMatchNamed(m) ==
    [Tour |-> ToStr(Or(Get(m, "Tour"), PyStr(<<>>))),
     EventID |-> UpcomingAsInt(Or3(m, "EventID", "Event", "EID")),
     ScheduledDate |-> ToStr(Or3(m, "ScheduledDate", "StartDate", "Date")),
     Player1ID |-> UpcomingAsInt(Or3(m, "Player1ID", "P1", "Player1")),
     Player1Name |-> <<"T", "B", "D">>,
     Player2ID |-> UpcomingAsInt(Or3(m, "Player2ID", "P2", "Player2")),
     Player2Name |-> <<"T", "B", "D">>]

\* The normalized match of one raw match that has a schedule date.
UpcomingMatch(m) ==
    [Tour |-> ToStr(Or(Get(m, "Tour"), PyStr(<<>>))),
     EventID |-> UpcomingAsInt(Or3(m, "EventID", "Event", "EID")),
     ScheduledDate |-> ToStr(Or3(m, "ScheduledDate", "StartDate", "Date")),
     Player1ID |-> UpcomingAsInt(Or3(m, "Player1ID", "P1", "Player1")),
     Player2ID |-> UpcomingAsInt(Or3(m, "Player2ID", "P2", "Player2"))]

\* A loop that keeps the matches without a schedule date.
RECURSIVE DecoratedKeepsAll(_)
DecoratedKeepsAll(all) ==
    IF all = <<>> THEN <<>> ELSE <<UpcomingMatch(Head(all))>> \o DecoratedKeepsAll(Tail(all))

\* The loop building `decorated`: matches without a schedule date are dropped.
RECURSIVE Decorated(_)
Decorated(all) ==
    IF all = <<>> THEN <<>>
    ELSE (IF Truthy(Or3(Head(all), "ScheduledDate", "StartDate", "Date"))
          THEN <<UpcomingMatch(Head(all))>> ELSE <<>>) \o Decorated(Tail(all))

\* A loop that passes over the player 0, as over None.
UpcomingMissingTruthy(decorated, ps) ==
    {v.i : v \in {x \in {decorated[k].Player1ID : k \in 1..Len(decorated)}
                       \cup {decorated[k].Player2ID : k \in 1..Len(decorated)} : Truthy(x)}}
      \ DOMAIN ps

\* The loop building missing_player_ids.
UpcomingMissing(decorated, ps) ==
    {v.i : v \in {x \in {decorated[k].Player1ID : k \in 1..Len(decorated)}
                       \cup {decorated[k].Player2ID : k \in 1..Len(decorated)} : x.t = "int"}}
      \ DOMAIN ps

\* decorated.sort(key=sort_key): stable, by the ScheduledDate string
RECURSIVE UpcomingInsert(_, _)
UpcomingInsert(sorted, x) ==
    IF sorted = <<>> THEN <<x>>
    ELSE IF StrLE(Head(sorted).ScheduledDate, x.ScheduledDate)
         THEN <<Head(sorted)>> \o UpcomingInsert(Tail(sorted), x)
         ELSE <<x>> \o sorted

\* A sort that leaves the matches as they were fetched.
UpcomingUnsorted(seq) == seq

RECURSIVE UpcomingSort(_)
UpcomingSort(seq) ==
    IF seq = <<>> THEN <<>>
    ELSE UpcomingInsert(UpcomingSort(SubSeq(seq, 1, Len(seq) - 1)), seq[Len(seq)])

\* result = {"count": len(decorated), "matches": decorated}
UpcomingResult(decorated) ==
    [has |-> TRUE, count |-> Len(decorated), matches |-> UpcomingSort(decorated)]

\* except Exception: _LOGGER.exception(...) around the backfill of the
\* upcoming poller: the cycle goes on to sort and return.
UpcomingBackfillFailed(cause, decorated) ==
    [kind |-> "return", raised |-> InBackfill(cause), result |-> UpcomingResult(decorated)]

\* The coroutine of task t returns or raises: its locals are gone.
Reset(t, locals) == loc' = [loc EXCEPT ![t] = locals]

\* UpcomingMatchesCoordinator._async_update_data is called: no tour, no
\* request; else the first tour's request is awaited.
UpcomingStart ==
    /\ pc["upcoming"] = "idle"
    /\ init.created
    /\ Started < MaxCycles
    /\ cycles' = [cycles EXCEPT !["upcoming"] = @ + 1]
    /\ IF Tours = <<>>
       THEN /\ Finish("upcoming", Return(UpcomingResult(<<>>)))
            /\ UNCHANGED loc
       ELSE /\ pc' = [pc EXCEPT !["upcoming"] = "get_upcoming_matches"]
            /\ loc' = [loc EXCEPT !["upcoming"] = [UpcomingLocals EXCEPT !.tour = 1]]
            /\ UNCHANGED <<data, last_update_success, last_exception, raised>>
    /\ UNCHANGED <<players, last_refreshed, persisted, clock>>
    /\ UNCHANGED <<life, client, applied, services>>

\* After the last tour: normalize, find the missing players and either start
\* the paced fetch of them or sort and return.
UpcomingAfterTours(all) ==
    LET decorated == Decorated(all)
        missing == UpcomingMissing(decorated, players)
    IN  IF missing # {}
        THEN /\ pc' = [pc EXCEPT !["upcoming"] = "get_player"]
             /\ loc' = [loc EXCEPT !["upcoming"] =
                   [@ EXCEPT !.all_matches = all, !.decorated = decorated,
                             !.fetch = [ids |-> Sorted(missing), out |-> NoFetch.out]]]
             /\ UNCHANGED <<data, last_update_success, last_exception, raised>>
        ELSE /\ Finish("upcoming", Return(UpcomingResult(decorated)))
             /\ Reset("upcoming", UpcomingLocals)

\* await self.api.get_upcoming_matches(tr) returns or raises.
UpcomingTour ==
    /\ pc["upcoming"] = "get_upcoming_matches"
    /\ \E r \in ApiResults(UpcomingJsons) :
         LET l == loc["upcoming"]
             all == l.all_matches \o Tagged(r.json.items, Tours[l.tour])
         IN  IF ~r.ok
             THEN /\ Finish("upcoming", UpdateFailed("ClientError", UpcomingResult(Decorated(l.all_matches)), NoUpcoming))
                  /\ Reset("upcoming", UpcomingLocals)
             ELSE IF NotIterableAsDicts(r.json)
             THEN /\ Finish("upcoming", UpdateFailed("TypeError", UpcomingResult(Decorated(l.all_matches)), NoUpcoming))
                  /\ Reset("upcoming", UpcomingLocals)
             ELSE IF l.tour < Len(Tours)
             THEN /\ loc' = [loc EXCEPT !["upcoming"] = [@ EXCEPT !.tour = @ + 1, !.all_matches = all]]
                  /\ UNCHANGED <<data, last_update_success, last_exception, raised, pc>>
             ELSE UpcomingAfterTours(all)
    /\ UNCHANGED <<players, last_refreshed, persisted, cycles, clock>>
    /\ UNCHANGED <<life, client, applied, services>>

\* Inside paced_player_fetch: get_player returns (and the pause passes) or
\* raises.  After the last player the payloads are merged into the cache and
\* save_player_cache is awaited.
UpcomingPlayer ==
    /\ pc["upcoming"] = "get_player"
    /\ \E r \in ApiResults(PlayerJsons(loc["upcoming"].fetch.ids[1])) :
         LET l == loc["upcoming"]
             f == Fetched(l.fetch, r.json)
         IN  IF ~r.ok
             THEN /\ Finish("upcoming", UpcomingBackfillFailed("ClientError", l.decorated))
                  /\ Reset("upcoming", UpcomingLocals)
                  /\ players' = FetchAborted(players, l.fetch.out)
             ELSE IF f.ids # <<>>
             THEN /\ loc' = [loc EXCEPT !["upcoming"] = [@ EXCEPT !.fetch = f]]
                  /\ UNCHANGED <<data, last_update_success, last_exception, raised, pc, players>>
             ELSE /\ players' = Merged(players, f.out)
                  /\ loc' = [loc EXCEPT !["upcoming"] =
                        [@ EXCEPT !.fetch = f, !.snap = SaveRecord(Merged(players, f.out), last_refreshed)]]
                  /\ pc' = [pc EXCEPT !["upcoming"] = "save"]
                  /\ UNCHANGED <<data, last_update_success, last_exception, raised>>
    /\ UNCHANGED <<last_refreshed, persisted, cycles, clock>>
    /\ UNCHANGED <<life, client, applied, services>>

\* await save_player_cache(...) returns, the record written, or raises; the
\* cycle sorts and returns either way.
UpcomingSave ==
    /\ pc["upcoming"] = "save"
    /\ \E ok \in BOOLEAN :
         /\ persisted' = IF ok THEN loc["upcoming"].snap ELSE persisted
         /\ Finish("upcoming",
                   IF ok THEN Return(UpcomingResult(loc["upcoming"].decorated))
                   ELSE UpcomingBackfillFailed("StoreError", loc["upcoming"].decorated))
    /\ Reset("upcoming", UpcomingLocals)
    /\ UNCHANGED <<players, last_refreshed, cycles, clock>>
    /\ UNCHANGED <<life, client, applied, services>>

\* ---------------------------------------------------- match-scores poller

NoScores == [has |-> FALSE, count |-> 0, matches |-> <<>>]

ScoresLocals == [tour |-> 0, raw_matches |-> <<>>, matches |-> <<>>, fetch |-> NoFetch, snap |-> NoRecord]

TBD == <<"T", "B", "D">>

NoEvent == [ID |-> 0, Name |-> <<>>, City |-> <<>>, Venue |-> <<>>, Type |-> <<>>, StartDate |-> <<>>, EndDate |-> <<>>]

\* as_int of MatchScoresCoordinator: None for None, "" and what int() rejects
ScoresAsInt(val) ==
    IF val.t = "none" \/ val = PyStr(<<>>) THEN None
    ELSE IF CanInt(val) THEN PyInt(ToInt(val)) ELSE None

\* int(m.get(key) or 0) raises ValueError
IntOrZeroRaises(m, key) == Truthy(Get(m, key)) /\ ~CanInt(Get(m, key))

\* int(m.get(key) or 0)
IntOrZero(m, key) == IF Truthy(Get(m, key)) THEN ToInt(Get(m, key)) ELSE 0

\* Building the match of a raw match raises.
ScoresMatchRaises(m) == \E key \in {"ID", "Score1", "Score2", "Status"} : IntOrZeroRaises(m, key)

\* self.player_cache.players.get(pid or -1, f"#{pid}" if pid else "TBD")
ScoresName(ps, pid) ==
    LET key == IF Truthy(pid) THEN pid.i ELSE 0 - 1
    IN  IF key \in DOMAIN ps THEN ps[key]
        ELSE IF Truthy(pid) THEN Placeholder(pid.i) ELSE TBD

\* events_map.get(event_id or -1, {})
ScoresEvent(events_map, event_id) ==
    LET key == IF Truthy(event_id) THEN event_id.i ELSE 0 - 1
    IN  IF key \in DOMAIN events_map THEN events_map[key] ELSE NoEvent

\* The dict appended to `matches` for one raw match.
ScoresMatch(m, ps, events_map) ==
    LET event == ScoresEvent(events_map, ScoresAsInt(Get(m, "EventID")))
    IN  [MatchID |-> IntOrZero(m, "ID"),
         EventID |-> ScoresAsInt(Get(m, "EventID")),
         EventName |-> event.Name,
         EventType |-> event.Type,
         EventCity |-> event.City,
         Player1ID |-> ScoresAsInt(Get(m, "Player1ID")),
         Player1Name |-> ScoresName(ps, ScoresAsInt(Get(m, "Player1ID"))),
         Score1 |-> IntOrZero(m, "Score1"),
         Player2ID |-> ScoresAsInt(Get(m, "Player2ID")),
         Player2Name |-> ScoresName(ps, ScoresAsInt(Get(m, "Player2ID"))),
         Score2 |-> IntOrZero(m, "Score2"),
         Status |-> IntOrZero(m, "Status"),
         Unfinished |-> Truthy(Get(m, "Unfinished")),
         ScheduledDate |-> ToStr(Or(Get(m, "ScheduledDate"), PyStr(<<>>))),
         StartDate |-> ToStr(Or(Get(m, "StartDate"), PyStr(<<>>))),
         EndDate |-> ToStr(Or(Get(m, "EndDate"), PyStr(<<>>)))]

\* [matches of raw_matches]
RECURSIVE ScoresMatches(_, _, _)
ScoresMatches(raw, ps, events_map) ==
    IF raw = <<>> THEN <<>>
    ELSE <<ScoresMatch(Head(raw), ps, events_map)>> \o ScoresMatches(Tail(raw), ps, events_map)

\* The truthy player ids of the raw matches that the cache does not hold.
ScoresMissing(raw, ps) ==
    {v.i : v \in {x \in {ScoresAsInt(Get(raw[k], "Player1ID")) : k \in 1..Len(raw)}
                       \cup {ScoresAsInt(Get(raw[k], "Player2ID")) : k \in 1..Len(raw)} : Truthy(x)}}
      \ DOMAIN ps

\* A backfill after which no name is read again.
ScoresNotRenamed(matches, ps) == matches

\* The second pass over `matches` after a backfill: names read again.
RECURSIVE ScoresRenamed(_, _)
ScoresRenamed(matches, ps) ==
    IF matches = <<>> THEN <<>>
    ELSE LET m == Head(matches)
             n1 == IF Truthy(m.Player1ID) /\ m.Player1ID.i \in DOMAIN ps THEN ps[m.Player1ID.i] ELSE m.Player1Name
             n2 == IF Truthy(m.Player2ID) /\ m.Player2ID.i \in DOMAIN ps THEN ps[m.Player2ID.i] ELSE m.Player2Name
         IN  <<[m EXCEPT !.Player1Name = n1, !.Player2Name = n2]>> \o ScoresRenamed(Tail(matches), ps)

\* A key of the schedule date alone.
ScoresKeyDateOnly(a, b) == StrLE(a.ScheduledDate, b.ScheduledDate)

\* (ScheduledDate, MatchID) of a <= that of b
ScoresKeyLE(a, b) ==
    IF a.ScheduledDate = b.ScheduledDate THEN a.MatchID <= b.MatchID
    ELSE StrLE(a.ScheduledDate, b.ScheduledDate)

\* matches.sort(key=...): stable, by schedule date and then match id
RECURSIVE ScoresInsert(_, _)
ScoresInsert(sorted, x) ==
    IF sorted = <<>> THEN <<x>>
    ELSE IF ScoresKeyLE(Head(sorted), x)
         THEN <<Head(sorted)>> \o ScoresInsert(Tail(sorted), x)
         ELSE <<x>> \o sorted

RECURSIVE ScoresSort(_)
ScoresSort(seq) ==
    IF seq = <<>> THEN <<>>
    ELSE ScoresInsert(ScoresSort(SubSeq(seq, 1, Len(seq) - 1)), seq[Len(seq)])

\* result = {"count": len(matches), "matches": matches}
ScoresResult(matches) == [has |-> TRUE, count |-> Len(matches), matches |-> ScoresSort(matches)]

\* A backfill block without its own handler: the failure would reach the
\* handler of the cycle.
ScoresBackfillRaised(cause, matches) ==
    [kind |-> "UpdateFailed", raised |-> InBackfill(cause), result |-> NoScores]

\* except Exception: _LOGGER.exception(...) around the backfill of the
\* scores poller: the cycle goes on to sort and return.
ScoresBackfillFailed(cause, matches) ==
    [kind |-> "return", raised |-> InBackfill(cause), result |-> ScoresResult(matches)]

\* (self.events_coord.data or {}).get("events_by_id", {})
EventsMap == data["events"].events_by_id

ScoresStart ==
    /\ pc["scores"] = "idle"
    /\ init.created
    /\ Started < MaxCycles
    /\ cycles' = [cycles EXCEPT !["scores"] = @ + 1]
    /\ IF Tours = <<>>
       THEN /\ Finish("scores", Return(ScoresResult(<<>>)))
            /\ UNCHANGED loc
       ELSE /\ pc' = [pc EXCEPT !["scores"] = "get_current_matches"]
            /\ loc' = [loc EXCEPT !["scores"] = [ScoresLocals EXCEPT !.tour = 1]]
            /\ UNCHANGED <<data, last_update_success, last_exception, raised>>
    /\ UNCHANGED <<players, last_refreshed, persisted, clock>>
    /\ UNCHANGED <<life, client, applied, services>>

\* After the last tour: build the matches against the events and the cache,
\* then start the paced fetch of the missing players or sort and return.
ScoresAfterTours(raw) ==
    LET matches == ScoresMatches(raw, players, EventsMap)
        missing == ScoresMissing(raw, players)
    IN  IF \E k \in 1..Len(raw) : ScoresMatchRaises(raw[k])
        THEN /\ Finish("scores", UpdateFailed("ValueError",
                      ScoresResult(ScoresMatches(SubSeq(raw, 1,
                          (CHOOSE k \in 1..Len(raw) : ScoresMatchRaises(raw[k])
                              /\ \A j \in 1..(k - 1) : ~ScoresMatchRaises(raw[j])) - 1), players, EventsMap)),
                      NoScores))
             /\ Reset("scores", ScoresLocals)
        ELSE IF missing # {}
        THEN /\ pc' = [pc EXCEPT !["scores"] = "get_player"]
             /\ loc' = [loc EXCEPT !["scores"] =
                   [@ EXCEPT !.raw_matches = raw, !.matches = matches,
                             !.fetch = [ids |-> Sorted(missing), out |-> NoFetch.out]]]
             /\ UNCHANGED <<data, last_update_success, last_exception, raised>>
        ELSE /\ Finish("scores", Return(ScoresResult(matches)))
             /\ Reset("scores", ScoresLocals)

\* await self.api.get_current_matches(tr) returns or raises.
ScoresTour ==
    /\ pc["scores"] = "get_current_matches"
    /\ \E r \in ApiResults(ScoresJsons) :
         LET l == loc["scores"]
             raw == l.raw_matches \o _as_list(r.json)
         IN  IF ~r.ok
             THEN /\ Finish("scores", UpdateFailed("ClientError", ScoresResult(<<>>), NoScores))
                  /\ Reset("scores", ScoresLocals)
             ELSE IF l.tour < Len(Tours)
             THEN /\ loc' = [loc EXCEPT !["scores"] = [@ EXCEPT !.tour = @ + 1, !.raw_matches = raw]]
                  /\ UNCHANGED <<data, last_update_success, last_exception, raised, pc>>
             ELSE ScoresAfterTours(raw)
    /\ UNCHANGED <<players, last_refreshed, persisted, cycles, clock>>
    /\ UNCHANGED <<life, client, applied, services>>

\* Inside paced_player_fetch, as in the upcoming poller.
ScoresPlayer ==
    /\ pc["scores"] = "get_player"
    /\ \E r \in ApiResults(PlayerJsons(loc["scores"].fetch.ids[1])) :
         LET l == loc["scores"]
             f == Fetched(l.fetch, r.json)
         IN  IF ~r.ok
             THEN /\ Finish("scores", ScoresBackfillFailed("ClientError", l.matches))
                  /\ Reset("scores", ScoresLocals)
                  /\ players' = FetchAborted(players, l.fetch.out)
             ELSE IF f.ids # <<>>
             THEN /\ loc' = [loc EXCEPT !["scores"] = [@ EXCEPT !.fetch = f]]
                  /\ UNCHANGED <<data, last_update_success, last_exception, raised, pc, players>>
             ELSE /\ players' = Merged(players, f.out)
                  /\ loc' = [loc EXCEPT !["scores"] =
                        [@ EXCEPT !.fetch = f, !.snap = SaveRecord(Merged(players, f.out), last_refreshed)]]
                  /\ pc' = [pc EXCEPT !["scores"] = "save"]
                  /\ UNCHANGED <<data, last_update_success, last_exception, raised>>
    /\ UNCHANGED <<last_refreshed, persisted, cycles, clock>>
    /\ UNCHANGED <<life, client, applied, services>>

\* await save_player_cache(...) returns, and the names are read again, or
\* raises; the cycle sorts and returns either way.
ScoresSave ==
    /\ pc["scores"] = "save"
    /\ \E ok \in BOOLEAN :
         /\ persisted' = IF ok THEN loc["scores"].snap ELSE persisted
         /\ Finish("scores",
                   IF ok THEN Return(ScoresResult(ScoresRenamed(loc["scores"].matches, players)))
                   ELSE ScoresBackfillFailed("StoreError", loc["scores"].matches))
    /\ Reset("scores", ScoresLocals)
    /\ UNCHANGED <<players, last_refreshed, cycles, clock>>
    /\ UNCHANGED <<life, client, applied, services>>

\* ------------------------------------------------------------ season poller

NoSeason == [has |-> FALSE, payload |-> EmptyDict]

\* Pollers that never looked at what the season poller published.
SeasonNeverKnown == FALSE

\* self.season_coord.data is truthy: a published, non-empty payload
SeasonKnown == data["season"].has /\ DictTruthy(data["season"].payload)

SeasonStart ==
    /\ pc["season"] = "idle"
    /\ init.created
    /\ Started < MaxCycles
    /\ cycles' = [cycles EXCEPT !["season"] = @ + 1]
    /\ pc' = [pc EXCEPT !["season"] = "get_current_season"]
    /\ UNCHANGED <<players, last_refreshed, persisted, data, last_update_success, last_exception, raised, loc, clock>>
    /\ UNCHANGED <<life, client, applied, services>>

\* await self.api.get_current_season() returns or raises.
SeasonResponse ==
    /\ pc["season"] = "get_current_season"
    /\ \E r \in ApiResults(SeasonJsons) :
         Finish("season",
                IF r.ok THEN Return([has |-> TRUE, payload |-> _first_dict(r.json)])
                ELSE UpdateFailed("ClientError", [has |-> TRUE, payload |-> EmptyDict], NoSeason))
    /\ UNCHANGED <<players, last_refreshed, persisted, loc, cycles, clock>>
    /\ UNCHANGED <<life, client, applied, services>>

\* ---------------------------------------------------------- rankings poller

\* The rows of a table that are decorated.
TopN == 10

NoRankings == [has |-> FALSE, season |-> 0, top10_money |-> <<>>, top10_one_year_money |-> <<>>]

RankingsLocals == [season_payload |-> EmptyDict, season |-> 0, money |-> <<>>]

\* rows[:n]
Take(rows, n) == SubSeq(rows, 1, IF Len(rows) < n THEN Len(rows) ELSE n)


\* r.get("PlayerID", r.get("ID", 0)) or 0
RankingPid(r) == Or(GetOr(r, "PlayerID", GetOr(r, "ID", PyInt(0))), PyInt(0))

\* A decoration that does not look into the cache.
DecoratedRowUnnamed(r, ps) == [row |-> r, PlayerName |-> Placeholder(ToInt(RankingPid(r)))]

\* {**r, "PlayerName": name or f"#{pid}"}
DecoratedRow(r, ps) ==
    LET pid == ToInt(RankingPid(r))
    IN  [row |-> r,
         PlayerName |-> IF pid \in DOMAIN ps /\ ps[pid] # <<>> THEN ps[pid] ELSE Placeholder(pid)]

\* decorate(rows) of RankingsCoordinator
RECURSIVE DecoratedRows(_, _)
DecoratedRows(rows, ps) ==
    IF rows = <<>> THEN <<>>
    ELSE <<DecoratedRow(Head(rows), ps)>> \o DecoratedRows(Tail(rows), ps)

decorate(rows, ps) == DecoratedRows(Take(rows, TopN), ps)

\* int(...) raises in decorate(rows)
DecorateRaises(rows) == \E k \in 1..Len(Take(rows, TopN)) : ~CanInt(RankingPid(rows[k]))

\* The rows decorated before the one int() raises on.
DecoratedBefore(rows, ps) ==
    IF DecorateRaises(rows)
    THEN DecoratedRows(SubSeq(rows, 1, (CHOOSE k \in 1..Len(rows) : ~CanInt(RankingPid(rows[k]))
                                           /\ \A j \in 1..(k - 1) : CanInt(RankingPid(rows[j]))) - 1), ps)
    ELSE decorate(rows, ps)

\* The season is extracted from the payload at hand: the money table is
\* requested, or the ValueError ends the cycle.
RankingsWithSeason(payload) ==
    IF _extract_season(payload).ok
    THEN /\ pc' = [pc EXCEPT !["rankings"] = "get_rankings_money"]
         /\ loc' = [loc EXCEPT !["rankings"] = 
               [RankingsLocals EXCEPT !.season_payload = payload, !.season = _extract_season(payload).v]]
         /\ UNCHANGED <<data, last_update_success, last_exception, raised>>
    ELSE /\ Finish("rankings", UpdateFailed("ValueError", [NoRankings EXCEPT !.has = TRUE], NoRankings))
         /\ Reset("rankings", RankingsLocals)

\* RankingsCoordinator._async_update_data is called: the season poller's
\* payload is used when it is truthy, else the season is requested.
RankingsStart ==
    /\ pc["rankings"] = "idle"
    /\ init.created
    /\ Started < MaxCycles
    /\ cycles' = [cycles EXCEPT !["rankings"] = @ + 1]
    /\ IF SeasonKnown
       THEN RankingsWithSeason(data["season"].payload)
       ELSE /\ pc' = [pc EXCEPT !["rankings"] = "get_current_season"]
            /\ UNCHANGED <<data, last_update_success, last_exception, raised, loc>>
    /\ UNCHANGED <<players, last_refreshed, persisted, clock>>
    /\ UNCHANGED <<life, client, applied, services>>

RankingsSeason ==
    /\ pc["rankings"] = "get_current_season"
    /\ \E r \in ApiResults(SeasonJsons) :
         IF r.ok THEN RankingsWithSeason(_first_dict(r.json))
         ELSE /\ Finish("rankings", UpdateFailed("ClientError", [NoRankings EXCEPT !.has = TRUE], NoRankings))
              /\ Reset("rankings", RankingsLocals)
    /\ UNCHANGED <<players, last_refreshed, persisted, cycles, clock>>
    /\ UNCHANGED <<life, client, applied, services>>

RankingsMoney ==
    /\ pc["rankings"] = "get_rankings_money"
    /\ \E r \in ApiResults(RankingJsons) :
         IF r.ok
         THEN /\ pc' = [pc EXCEPT !["rankings"] = "get_rankings_one_year"]
              /\ loc' = [loc EXCEPT !["rankings"] = [@ EXCEPT !.money = _as_list(r.json)]]
              /\ UNCHANGED <<data, last_update_success, last_exception, raised>>
         ELSE /\ Finish("rankings", UpdateFailed("ClientError",
                       [NoRankings EXCEPT !.has = TRUE, !.season = loc["rankings"].season], NoRankings))
              /\ Reset("rankings", RankingsLocals)
    /\ UNCHANGED <<players, last_refreshed, persisted, cycles, clock>>
    /\ UNCHANGED <<life, client, applied, services>>

\* A rankings poller that put the players of its rows into the cache.
RankingsOneYearBackfills ==
    /\ pc["rankings"] = "get_rankings_one_year"
    /\ \E r \in ApiResults(RankingJsons) :
         LET l == loc["rankings"]
             ids == {ToInt(RankingPid(l.money[k])) : k \in {j \in 1..Len(l.money) : CanInt(RankingPid(l.money[j]))}}
         IN  /\ Finish("rankings",
                       IF ~r.ok \/ DecorateRaises(l.money) \/ DecorateRaises(_as_list(r.json))
                       THEN UpdateFailed("ClientError", NoRankings, NoRankings)
                       ELSE Return([has |-> TRUE, season |-> l.season,
                                    top10_money |-> decorate(l.money, players),
                                    top10_one_year_money |-> decorate(_as_list(r.json), players)]))
             /\ players' = [i \in DOMAIN players \cup ids |->
                              IF i \in DOMAIN players THEN players[i] ELSE Placeholder(i)]
    /\ Reset("rankings", RankingsLocals)
    /\ UNCHANGED <<last_refreshed, persisted, cycles, clock>>
    /\ UNCHANGED <<life, client, applied, services>>

RankingsOneYear ==
    /\ pc["rankings"] = "get_rankings_one_year"
    /\ \E r \in ApiResults(RankingJsons) :
         LET l == loc["rankings"]
             one_year == _as_list(r.json)
         IN  Finish("rankings",
                    IF ~r.ok
                    THEN UpdateFailed("ClientError",
                           [NoRankings EXCEPT !.has = TRUE, !.season = l.season], NoRankings)
                    ELSE IF DecorateRaises(l.money) \/ DecorateRaises(one_year)
                    THEN UpdateFailed("ValueError",
                           [has |-> TRUE, season |-> l.season,
                            top10_money |-> DecoratedBefore(l.money, players),
                            top10_one_year_money |-> IF DecorateRaises(l.money) THEN <<>>
                                                     ELSE DecoratedBefore(one_year, players)],
                           NoRankings)
                    ELSE Return([has |-> TRUE, season |-> l.season,
                                 top10_money |-> decorate(l.money, players),
                                 top10_one_year_money |-> decorate(one_year, players)]))
    /\ Reset("rankings", RankingsLocals)
    /\ UNCHANGED <<players, last_refreshed, persisted, cycles, clock>>
    /\ UNCHANGED <<life, client, applied, services>>

\* ------------------------------------------------------------ events poller

NoEvents == [has |-> FALSE, season |-> 0, count |-> 0, events |-> <<>>, events_by_id |-> [i \in {} |-> NoEvent]]

EventsLocals == [season_payload |-> EmptyDict, season |-> 0, tour |-> 0, raw_events |-> <<>>]

\* len(tour_events) raises TypeError: the payload has no length.
NoLen(json) == json.kind = "other"

\* What raw_events.extend(tour_events) appends: the members of a list, or
\* the keys of an object (get_events_in_season returns the payload as decoded).
Extended(json) ==
    IF json.kind = "dict"
    THEN [k \in 1..Cardinality(DOMAIN json.d) |-> NonDict]
    ELSE json.items

\* raw.get(...) raises AttributeError on a member that is no object.
EventsBuildRaises(raw_events) == \E k \in 1..Len(raw_events) : ~raw_events[k].isdict

\* raw.get("ID") or raw.get("EventID") or raw.get("EID")
EventIdOf(raw) == Or3(raw, "ID", "EventID", "EID")

\* The raw event is kept: its id is not None and int() takes it.
EventKept(raw) == EventIdOf(raw).t # "none" /\ CanInt(EventIdOf(raw))

\* The event dict built from a raw event.
EventOf(raw) ==
    [ID |-> ToInt(EventIdOf(raw)),
     Name |-> ToStr(Or(Or(Get(raw, "Name"), Get(raw, "EventName")), PyStr(<<>>))),
     City |-> ToStr(Or(Get(raw, "City"), PyStr(<<>>))),
     Venue |-> ToStr(Or(Get(raw, "Venue"), PyStr(<<>>))),
     Type |-> ToStr(Or(Get(raw, "Type"), PyStr(<<>>))),
     StartDate |-> ToStr(Or(Or(Get(raw, "StartDate"), Get(raw, "Start")), PyStr(<<>>))),
     EndDate |-> ToStr(Or(Or(Get(raw, "EndDate"), Get(raw, "End")), PyStr(<<>>)))]

\* A map in which the first event of an id wins.
EventsByIdFirstWins(raw_events) ==
    LET kept == {k \in 1..Len(raw_events) : raw_events[k].isdict /\ EventKept(raw_events[k].d)}
        ids == {ToInt(EventIdOf(raw_events[k].d)) : k \in kept}
        first_of(i) == CHOOSE k \in kept : /\ ToInt(EventIdOf(raw_events[k].d)) = i
                                           /\ \A j \in kept : ToInt(EventIdOf(raw_events[j].d)) = i => k <= j
    IN  [i \in ids |-> EventOf(raw_events[first_of(i)].d)]

\* events_by_id after the loop over raw_events: the last event of an id wins.
EventsById(raw_events) ==
    LET kept == {k \in 1..Len(raw_events) : raw_events[k].isdict /\ EventKept(raw_events[k].d)}
        ids == {ToInt(EventIdOf(raw_events[k].d)) : k \in kept}
        last(i) == CHOOSE k \in kept : /\ ToInt(EventIdOf(raw_events[k].d)) = i
                                       /\ \A j \in kept : ToInt(EventIdOf(raw_events[j].d)) = i => j <= k
    IN  [i \in ids |-> EventOf(raw_events[last(i)].d)]

\* sorted(events_by_id.values(), key=lambda x: x["ID"])
RECURSIVE EventsSorted(_, _)
EventsSorted(by_id, ids) ==
    IF ids = <<>> THEN <<>> ELSE <<by_id[Head(ids)]>> \o EventsSorted(by_id, Tail(ids))

EventsResult(season, raw_events) ==
    LET by_id == EventsById(raw_events)
    IN  [has |-> TRUE, season |-> season, count |-> Cardinality(DOMAIN by_id),
         events |-> EventsSorted(by_id, Sorted(DOMAIN by_id)), events_by_id |-> by_id]

\* The events built before the member raw.get raises on.
EventsPartial(season, raw_events) ==
    IF EventsBuildRaises(raw_events)
    THEN EventsResult(season, SubSeq(raw_events, 1, (CHOOSE k \in 1..Len(raw_events) : ~raw_events[k].isdict
                                          /\ \A j \in 1..(k - 1) : raw_events[j].isdict) - 1))
    ELSE EventsResult(season, raw_events)

\* All events are fetched: build, sort and return, or raise.
EventsFinish(season, raw_events) ==
    /\ Finish("events",
              IF EventsBuildRaises(raw_events)
              THEN UpdateFailed("AttributeError", EventsPartial(season, raw_events), NoEvents)
              ELSE Return(EventsResult(season, raw_events)))
    /\ Reset("events", EventsLocals)

\* The season is extracted: the first events request is awaited, or the
\* ValueError ends the cycle.
EventsWithSeason(payload) ==
    IF _extract_season(payload).ok
    THEN /\ pc' = [pc EXCEPT !["events"] = "get_events_in_season"]
         /\ loc' = [loc EXCEPT !["events"] =
               [EventsLocals EXCEPT !.season_payload = payload, !.season = _extract_season(payload).v,
                                    !.tour = IF Tours = <<>> THEN 0 ELSE 1]]
         /\ UNCHANGED <<data, last_update_success, last_exception, raised>>
    ELSE /\ Finish("events", UpdateFailed("ValueError", [NoEvents EXCEPT !.has = TRUE], NoEvents))
         /\ Reset("events", EventsLocals)

EventsStart ==
    /\ pc["events"] = "idle"
    /\ init.created
    /\ Started < MaxCycles
    /\ cycles' = [cycles EXCEPT !["events"] = @ + 1]
    /\ IF SeasonKnown
       THEN EventsWithSeason(data["season"].payload)
       ELSE /\ pc' = [pc EXCEPT !["events"] = "get_current_season"]
            /\ UNCHANGED <<data, last_update_success, last_exception, raised, loc>>
    /\ UNCHANGED <<players, last_refreshed, persisted, clock>>
    /\ UNCHANGED <<life, client, applied, services>>

EventsSeason ==
    /\ pc["events"] = "get_current_season"
    /\ \E r \in ApiResults(SeasonJsons) :
         IF r.ok THEN EventsWithSeason(_first_dict(r.json))
         ELSE /\ Finish("events", UpdateFailed("ClientError", [NoEvents EXCEPT !.has = TRUE], NoEvents))
              /\ Reset("events", EventsLocals)
    /\ UNCHANGED <<players, last_refreshed, persisted, cycles, clock>>
    /\ UNCHANGED <<life, client, applied, services>>

\* await self.api.get_events_in_season(season, tr) (or without a tour when
\* none is configured) returns or raises.
EventsTour ==
    /\ pc["events"] = "get_events_in_season"
    /\ \E r \in ApiResults(EventsJsons) :
         LET l == loc["events"]
             raw == IF Tours = <<>> THEN Extended(r.json) ELSE l.raw_events \o Extended(r.json)
         IN  IF ~r.ok
             THEN /\ Finish("events", UpdateFailed("ClientError", EventsPartial(l.season, <<>>), NoEvents))
                  /\ Reset("events", EventsLocals)
             ELSE IF NoLen(r.json)
             THEN /\ Finish("events", UpdateFailed("TypeError", EventsPartial(l.season, <<>>), NoEvents))
                  /\ Reset("events", EventsLocals)
             ELSE IF l.tour < Len(Tours)
             THEN /\ loc' = [loc EXCEPT !["events"] = [@ EXCEPT !.tour = @ + 1, !.raw_events = raw]]
                  /\ UNCHANGED <<data, last_update_success, last_exception, raised, pc>>
             ELSE EventsFinish(l.season, raw)
    /\ UNCHANGED <<players, last_refreshed, persisted, cycles, clock>>
    /\ UNCHANGED <<life, client, applied, services>>

\* ------------------------------------------- monthly player-cache refresh

MONTHLY_REFRESH_DAYS == 30

\* rankings[:100]
TopMonthly == 100

\* utcnow() when the refresh is called, in days since the stamp of the
\* stored record.
Days == {0, MONTHLY_REFRESH_DAYS - 1, MONTHLY_REFRESH_DAYS, MaxDay}

MonthlyLocals ==
    [now |-> 0, season_payload |-> EmptyDict, season |-> 0, rankings |-> <<>>, top100_ids |-> <<>>, fetch |-> NoFetch, snap |-> NoRecord]

\* A due-check that takes a stamp of exactly MONTHLY_REFRESH_DAYS days for
\* fresh.
RefreshDueLater(now, last) ==
    \/ ~Truthy(last)
    \/ ~CanInt(last)
    \/ now - ToInt(last) > MONTHLY_REFRESH_DAYS

\* The due-check of maybe_refresh_player_cache_monthly: no stamp, a stamp
\* that does not parse, or one at least MONTHLY_REFRESH_DAYS old.
RefreshDue(now, last) ==
    \/ ~Truthy(last)
    \/ ~CanInt(last)
    \/ ~(now - ToInt(last) < MONTHLY_REFRESH_DAYS)

\* An id taken from the generic ID field first.
MonthlyPidGeneric(r) == GetOr(r, "ID", Get(r, "PlayerID"))

\* r.get("PlayerID", r.get("ID"))
MonthlyPid(r) == GetOr(r, "PlayerID", Get(r, "ID"))

\* int(pid) raises while top100_ids is built
MonthlyIdsRaise(rankings) ==
    \E k \in 1..Len(Take(rankings, TopMonthly)) :
        MonthlyPid(rankings[k]).t # "none" /\ ~CanInt(MonthlyPid(rankings[k]))

\* top100_ids
RECURSIVE IdsOf(_)
IdsOf(rows) ==
    IF rows = <<>> THEN <<>>
    ELSE (IF MonthlyPid(Head(rows)).t = "none" THEN <<>> ELSE <<ToInt(MonthlyPid(Head(rows)))>>) \o IdsOf(Tail(rows))

Top100Ids(rankings) == IdsOf(Take(rankings, TopMonthly))

\* A task without a handler: the exception ends it unhandled.
Unhandled(type) == IF type = "CancelledError" THEN "cancelled" ELSE "crashed"

\* except Exception: _LOGGER.exception(...) of
\* _async_refresh_player_cache_task: how the task ends when the exception
\* reaches the handler.  CancelledError is no Exception.
CacheTaskHandler(type) == IF type = "CancelledError" THEN "cancelled" ELSE "logged"

\* except Exception: _LOGGER.exception(...) of _async_refresh_all_coordinators
RefreshAllHandler(type) == IF type = "CancelledError" THEN "cancelled" ELSE "logged"

\* except asyncio.CancelledError: raise; except Exception:
\* _LOGGER.exception(...) of _async_initialize_entry
InitHandler(type) == IF type = "CancelledError" THEN "cancelled" ELSE "logged"

\* A task that has ended with the exception of the given type.
EndedWith(task, how, type) == [task EXCEPT !.pc = how, !.raised = type]

\* _async_initialize_entry after the refresh call: the coordinators are
\* created; with the entry's data gone it returns, else it stores them and
\* awaits the forward to the platforms.
InitCreates ==
    IF registry.entry
    THEN /\ init' = [init EXCEPT !.pc = "forward", !.created = TRUE]
         /\ registry' = [registry EXCEPT !.coords = TRUE]
    ELSE /\ init' = [init EXCEPT !.pc = "skipped", !.created = TRUE]
         /\ UNCHANGED registry

\* maybe_refresh_player_cache_monthly is left, with an exception or ("none")
\* by return, and the task that awaited it goes on: the initialization to
\* its coordinators or its handler, the background task to its end.
Left(type) ==
    /\ pc' = [pc EXCEPT !["monthly"] = "idle"]
    /\ last_exception' = [last_exception EXCEPT !["monthly"] = type]
    /\ IF init.pc = "monthly"
       THEN /\ IF type = "none" THEN InitCreates
               ELSE init' = EndedWith(init, InitHandler(type), type) /\ UNCHANGED registry
            /\ UNCHANGED bg
       ELSE /\ bg' = IF type = "none" THEN [bg EXCEPT !.pc = "done"]
                     ELSE EndedWith(bg, CacheTaskHandler(type), type)
            /\ UNCHANGED <<init, registry>>
    /\ UNCHANGED <<setup, first>>

\* A refresh that logged its exception and returned.
RaiseSwallowed(type) == Left("none") /\ raised' = [raised EXCEPT !["monthly"] = InBody(type)]

\* An exception raised in the body of the refresh leaves it.
Raise(type) == Left(type) /\ raised' = [raised EXCEPT !["monthly"] = InBody(type)]

\* The refresh returns.
Returned == Left("none") /\ raised' = [raised EXCEPT !["monthly"] = NoRaise]

\* A setup that awaited something between making the task and returning.
SetupAwaited == TRUE

\* async_setup_entry is not in the code between making the initialization
\* task and returning: the event loop can run what has become ready.
Yielded == setup # "scheduled"

\* The refresh stays in its coroutine.
Stays == UNCHANGED <<last_exception, raised, life>>

\* The refresh is called when it is due: the season is requested.
MonthlyDue(now) ==
    /\ Started < MaxCycles
    /\ cycles' = [cycles EXCEPT !["monthly"] = @ + 1]
    /\ clock' = now
    /\ pc' = [pc EXCEPT !["monthly"] = "get_current_season"]
    /\ loc' = [loc EXCEPT !["monthly"] = [MonthlyLocals EXCEPT !.now = now]]
    /\ UNCHANGED <<last_exception, raised>>

\* The refresh is called when it is not due: it returns at once.
MonthlyNotDue(now) ==
    /\ clock' = now
    /\ last_exception' = [last_exception EXCEPT !["monthly"] = "none"]
    /\ raised' = [raised EXCEPT !["monthly"] = NoRaise]
    /\ UNCHANGED <<pc, loc, cycles>>

\* The payloads are merged, last_refreshed is stamped and
\* save_player_cache is awaited.
MonthlyMerge(l, f) ==
    /\ players' = Merged(players, f.out)
    /\ last_refreshed' = IsoFormat(l.now)
    /\ loc' = [loc EXCEPT !["monthly"] =
          [l EXCEPT !.fetch = f, !.snap = SaveRecord(Merged(players, f.out), IsoFormat(l.now))]]
    /\ pc' = [pc EXCEPT !["monthly"] = "save"]
    /\ Stays

\* await api.get_current_season() returns or raises; the season is
\* extracted and the money rankings are requested.
MonthlySeason ==
    /\ pc["monthly"] = "get_current_season"
    /\ Yielded
    /\ \E r \in ApiResults(SeasonJsons) :
         IF ~r.ok
         THEN Raise("ClientError") /\ Reset("monthly", MonthlyLocals)
         ELSE IF ~_extract_season(_first_dict(r.json)).ok
         THEN Raise("ValueError") /\ Reset("monthly", MonthlyLocals)
         ELSE /\ pc' = [pc EXCEPT !["monthly"] = "get_rankings"]
              /\ loc' = [loc EXCEPT !["monthly"] = 
                    [@ EXCEPT !.season_payload = _first_dict(r.json),
                              !.season = _extract_season(_first_dict(r.json)).v]]
              /\ Stays
    /\ UNCHANGED <<players, last_refreshed, persisted, data, last_update_success, cycles, clock, client, applied, services>>

\* await api.get_rankings(season, RANKING_MONEY) returns or raises; the
\* ids are collected and the paced fetch of them starts (with no id it
\* returns at once).
MonthlyRankings ==
    /\ pc["monthly"] = "get_rankings"
    /\ Yielded
    /\ \E r \in ApiResults(RankingJsons) :
         LET rankings == _as_list(r.json)
         IN  IF ~r.ok
             THEN /\ Raise("ClientError") /\ Reset("monthly", MonthlyLocals)
                  /\ UNCHANGED <<players, last_refreshed>>
             ELSE IF MonthlyIdsRaise(rankings)
             THEN /\ Raise("ValueError") /\ Reset("monthly", MonthlyLocals)
                  /\ UNCHANGED <<players, last_refreshed>>
             ELSE IF Top100Ids(rankings) = <<>>
             THEN MonthlyMerge([loc["monthly"] EXCEPT !.rankings = rankings], NoFetch)
             ELSE /\ pc' = [pc EXCEPT !["monthly"] = "get_player"]
                  /\ loc' = [loc EXCEPT !["monthly"] =
                        [@ EXCEPT !.rankings = rankings, !.top100_ids = Top100Ids(rankings),
                                  !.fetch = [ids |-> Top100Ids(rankings), out |-> NoFetch.out]]]
                  /\ UNCHANGED <<players, last_refreshed>>
                  /\ Stays
    /\ UNCHANGED <<persisted, data, last_update_success, cycles, clock, client, applied, services>>

\* One get_player of the paced fetch returns, and its sleep, or raises.
MonthlyPlayer ==
    /\ pc["monthly"] = "get_player"
    /\ Yielded
    /\ \E r \in ApiResults(PlayerJsons(loc["monthly"].fetch.ids[1])) :
         LET f == Fetched(loc["monthly"].fetch, r.json)
         IN  IF ~r.ok
             THEN /\ Raise("ClientError") /\ Reset("monthly", MonthlyLocals)
                  /\ players' = FetchAborted(players, loc["monthly"].fetch.out)
                  /\ UNCHANGED last_refreshed
             ELSE IF f.ids # <<>>
             THEN /\ loc' = [loc EXCEPT !["monthly"] = [@ EXCEPT !.fetch = f]]
                  /\ UNCHANGED <<players, last_refreshed, pc>>
                  /\ Stays
             ELSE MonthlyMerge(loc["monthly"], f)
    /\ UNCHANGED <<persisted, data, last_update_success, cycles, clock, client, applied, services>>

\* await save_player_cache(...) returns, the record written, or raises.
MonthlySave ==
    /\ pc["monthly"] = "save"
    /\ Yielded
    /\ \E ok \in BOOLEAN :
         IF ok THEN persisted' = loc["monthly"].snap /\ Returned
         ELSE UNCHANGED persisted /\ Raise("StoreError")
    /\ Reset("monthly", MonthlyLocals)
    /\ UNCHANGED <<players, last_refreshed, data, last_update_success, cycles, clock, client, applied, services>>

\* ------------------------------------------------------------- cancellation

InitialLocals ==
    [t \in Tasks |->
       CASE t = "upcoming" -> UpcomingLocals
         [] t = "scores" -> ScoresLocals
         [] t = "rankings" -> RankingsLocals
         [] t = "events" -> EventsLocals
         [] t = "monthly" -> MonthlyLocals
         [] OTHER -> [none |-> 0]]

\* CancelledError is raised at the await the coroutine of t is suspended at,
\* and no handler of the coroutine catches it.  A write already handed to
\* the store may still happen.
Cancelled(t) ==
    /\ pc' = [pc EXCEPT ![t] = "idle"]
    /\ last_exception' = [last_exception EXCEPT ![t] = "CancelledError"]
    /\ raised' = [raised EXCEPT ![t] = [type |-> "CancelledError", site |-> "await"]]
    /\ loc' = [loc EXCEPT ![t] = InitialLocals[t]]
    /\ players' = IF pc[t] = "get_player" THEN FetchAborted(players, loc[t].fetch.out) ELSE players
    /\ \E written \in BOOLEAN :
         persisted' = IF written /\ pc[t] = "save" THEN loc[t].snap ELSE persisted

\* The host cancels the cycle of a poller.
Cancel(t) ==
    /\ pc[t] # "idle"
    /\ Cancelled(t)
    /\ UNCHANGED <<last_refreshed, data, last_update_success, cycles, clock, life, client, applied, services>>

\* The host cancels the task that awaits the refresh of the cache.
CancelRefresh ==
    /\ pc["monthly"] # "idle"
    /\ Yielded
    /\ Cancelled("monthly")
    /\ IF init.pc = "monthly"
       THEN init' = EndedWith(init, InitHandler("CancelledError"), "CancelledError") /\ UNCHANGED bg
       ELSE bg' = EndedWith(bg, CacheTaskHandler("CancelledError"), "CancelledError") /\ UNCHANGED init
    /\ UNCHANGED <<last_refreshed, data, last_update_success, cycles, clock, setup, first, registry, client, applied, services>>

\* --------------------------------------------------------------- the client

BASE_URL == "https://api.snooker.org/"
HEADER_NAME == "X-Requested-By"
RANKING_MONEY == <<"M", "o", "n", "e", "y", "R", "a", "n", "k", "i", "n", "g", "s">>
RANKING_ONE_YEAR_MONEY == <<"O", "n", "e", "Y", "e", "a", "r">> \o RANKING_MONEY

\* entry.data[CONF_REQUESTED_BY]
RequestedBy == "me"

\* SnookerOrgApi._headers
_headers == [h \in {HEADER_NAME} |-> RequestedBy]

\* The tour a method is called with: None, "" or a tour code.
TourArgs == {None, PyStr(<<>>), PyStr(Tours[1])}

\* The calls of the methods of the client.
Calls ==
    {[method |-> "get_current_season", season |-> None, ranking_type |-> None, tour |-> None, id |-> None]}
      \cup {[method |-> "get_rankings", season |-> PyInt(2024), ranking_type |-> PyStr(rt), tour |-> None, id |-> None] :
              rt \in {RANKING_MONEY, RANKING_ONE_YEAR_MONEY}}
      \cup {[method |-> m, season |-> None, ranking_type |-> None, tour |-> tr, id |-> None] :
              m \in {"get_upcoming_matches", "get_current_matches"}, tr \in TourArgs}
      \cup {[method |-> "get_events_in_season", season |-> PyInt(2024), ranking_type |-> None, tour |-> tr, id |-> None] :
              tr \in TourArgs}
      \cup {[method |-> "get_matches_of_event", season |-> None, ranking_type |-> None, tour |-> None, id |-> PyInt(7)]}
      \cup {[method |-> "get_player", season |-> None, ranking_type |-> None, tour |-> None, id |-> PyInt(i)] :
              i \in {1, 2}}

\* params["tr"] = tour, if tour
WithTour(params, tour) == IF Truthy(tour) THEN With(params, "tr", tour) ELSE params

\* The query parameters each method hands to _get_json.
Params(call) ==
    CASE call.method = "get_current_season" -> Obj([t |-> PyInt(20)])
      [] call.method = "get_rankings" -> Obj([rt |-> call.ranking_type, s |-> call.season])
      [] call.method = "get_upcoming_matches" -> WithTour(Obj([t |-> PyInt(14)]), call.tour)
      [] call.method = "get_events_in_season" -> WithTour(Obj([t |-> PyInt(5), s |-> call.season]), call.tour)
      [] call.method = "get_current_matches" -> WithTour(Obj([t |-> PyInt(17)]), call.tour)
      [] call.method = "get_matches_of_event" -> Obj([t |-> PyInt(6), e |-> call.id])
      [] OTHER -> Obj([p |-> call.id])

\* What each method makes of the payload _get_json returns.
Normalized(method, payload) ==
    CASE method \in {"get_current_season", "get_player"} -> JObj(_first_dict(payload))
      [] method \in {"get_rankings", "get_current_matches"} ->
           JList([k \in 1..Len(_as_list(payload)) |-> Item(_as_list(payload)[k])])
      [] OTHER -> payload

\* session.get(BASE_URL, params=params, headers=self._headers, timeout=30)
Request(params) == [url |-> BASE_URL, params |-> params, headers |-> _headers, timeout |-> 30]

\* A body that does not decode.
Undecodable == [kind |-> "undecodable", d |-> EmptyDict, items |-> <<>>]

\* The bodies of the answers.
Bodies ==
    {JList(<<Item(Obj([ID |-> PyInt(1)])), NonDict>>), JObj(Obj([ID |-> PyInt(1)])), JList(<<>>), JOther,
     Undecodable, JList(<<Item(Obj([ID |-> PyInt(1)]))>>), JList(<<NonDict, Item(Obj([ID |-> PyInt(1)]))>>),
     JObj(EmptyDict)}

\* What the server, or the transport, answers a request with.
Responses ==
    {[kind |-> "http", status |-> 200, body |-> b] : b \in Bodies}
      \cup {[kind |-> "http", status |-> st, body |-> JOther] : st \in {403, 404, 500}}
      \cup {[kind |-> k, status |-> 0, body |-> JOther] : k \in {"timeout", "connection"}}

\* The exception an answer makes session.get, raise_for_status or
\* resp.json raise, "none" when the payload is returned.
ErrorOf(r) ==
    CASE r.kind = "timeout" -> "TimeoutError"
      [] r.kind = "connection" -> "ClientConnectionError"
      [] r.status >= 400 -> "ClientResponseError"
      [] r.body.kind = "undecodable" -> "JSONDecodeError"
      [] OTHER -> "none"

\* No call of the client is under way.
NoAnswer == [kind |-> "none", status |-> 0, error |-> "none"]

IdleClient ==
    [pc |-> "idle", call |-> None, params |-> EmptyDict, attempt |-> 0, sent |-> <<>>, slept |-> 0,
     answer |-> NoAnswer, payload |-> None, result |-> None]

\* A handler of the 403 that gave up: the status would reach the caller.
RateLimitRaised(c) == [c EXCEPT !.pc = "raised", !.result = "ClientResponseError"]

\* if resp.status == 403: ... await asyncio.sleep(60)
RateLimited(c) == [c EXCEPT !.pc = "sleep"]

\* A client that took every failure as it takes the 403.
FailureRetried(c, type) == [c EXCEPT !.pc = "sleep"]

\* except Exception: _LOGGER.exception(...); raise
Failed(c, type) == [c EXCEPT !.pc = "raised", !.result = type]

\* return payload, and what the method makes of it
Succeeded(c, payload) ==
    [c EXCEPT !.pc = "returned", !.payload = payload, !.result = Normalized(c.call.method, payload)]

\* A method of the client is called: attempt 1 of its request is sent.
ClientCall ==
    /\ client.pc = "idle"
    /\ \E call \in Calls :
         client' = [IdleClient EXCEPT !.pc = "get", !.call = call, !.params = Params(call), !.attempt = 1,
                                      !.sent = <<Request(Params(call))>>]
    /\ UNCHANGED <<work, life, applied, services>>

\* The request is answered.  A 403 is one of at most MaxAttempts answers.
ClientResponse ==
    /\ client.pc = "get"
    /\ \E r \in Responses :
         /\ r.status = 403 => client.attempt < MaxAttempts
         /\ LET answer == [kind |-> r.kind, status |-> r.status, error |-> ErrorOf(r)]
                after == IF r.kind = "http" /\ r.status = 403 THEN RateLimited(client)
                         ELSE IF ErrorOf(r) # "none" THEN Failed(client, ErrorOf(r))
                         ELSE Succeeded(client, r.body)
            IN  client' = [after EXCEPT !.answer = answer]
    /\ UNCHANGED <<work, life, applied, services>>

\* asyncio.sleep(60) returns; continue: the next attempt sends the request
\* again.
ClientWake ==
    /\ client.pc = "sleep"
    /\ client' = [client EXCEPT !.pc = "get", !.attempt = @ + 1, !.slept = @ + 60,
                                !.sent = Append(@, Request(client.params)), !.answer = NoAnswer]
    /\ UNCHANGED <<work, life, applied, services>>

\* The task that awaits the call is cancelled.
ClientCancel ==
    /\ client.pc \in {"get", "sleep"}
    /\ client' = [client EXCEPT !.pc = "cancelled", !.result = "CancelledError"]
    /\ UNCHANGED <<work, life, applied, services>>

\* ---------------------------------------------------------- entry lifecycle

\* A task that was not created.
NoTask == [pc |-> "none", raised |-> "none"]

\* A task that was created and has not run.
Scheduled == [pc |-> "scheduled", raised |-> "none"]

\* hass.data[DOMAIN] without the entry, and no service registered.
NoRegistry == [entry |-> FALSE, coords |-> FALSE, platforms_loaded |-> FALSE, services |-> FALSE]

\* hass.data[DOMAIN][entry_id] as async_setup_entry writes it, the services
\* registered.
Registered == [entry |-> TRUE, coords |-> FALSE, platforms_loaded |-> FALSE, services |-> TRUE]

\* The coordinators a first refresh goes through, in its order.
RefreshOrder == <<"season", "rankings", "upcoming", "events", "scores">>

\* async_setup_entry is called: the client is made and load_player_cache is
\* awaited.
SetupCalled ==
    /\ setup = "none"
    /\ setup' = "load"
    /\ UNCHANGED <<work, init, bg, first, registry, client, applied, services>>

\* The load returns or raises: the cache is made of the record, the entry's
\* data and the services are registered and the initialization is handed
\* to a task.
SetupLoaded ==
    /\ setup = "load"
    /\ \E ok \in BOOLEAN :
         IF ok
         THEN /\ players' = load_player_cache(persisted).players
              /\ last_refreshed' = load_player_cache(persisted).last_refreshed
              /\ registry' = Registered
              /\ init' = [pc |-> "scheduled", raised |-> "none", created |-> FALSE]
              /\ setup' = "scheduled"
         ELSE /\ setup' = "failed"
              /\ UNCHANGED <<players, last_refreshed, registry, init>>
    /\ UNCHANGED <<persisted, data, last_update_success, last_exception, raised, pc, loc, cycles, clock>>
    /\ UNCHANGED <<bg, first, client, applied, services>>

\* return True
SetupReturn ==
    /\ setup = "scheduled"
    /\ setup' = "returned"
    /\ UNCHANGED <<work, init, bg, first, registry, client, applied, services>>

\* The task of _async_initialize_entry runs to its first await: with an
\* empty cache the refresh is awaited, else it is handed to a background
\* task; with the refresh behind it the coordinators are created.
InitStart ==
    /\ init.pc = "scheduled"
    /\ IF players = NoPlayers
       THEN \E now \in Days :
              IF RefreshDue(now, last_refreshed)
              THEN /\ MonthlyDue(now)
                   /\ init' = [init EXCEPT !.pc = "monthly"]
                   /\ UNCHANGED <<bg, registry>>
              ELSE /\ MonthlyNotDue(now)
                   /\ InitCreates
                   /\ UNCHANGED bg
       ELSE /\ bg' = Scheduled
            /\ InitCreates
            /\ UNCHANGED <<last_exception, raised, pc, loc, cycles, clock>>
    /\ UNCHANGED <<players, last_refreshed, persisted, data, last_update_success, setup, first, client, applied, services>>

\* The task of _async_refresh_player_cache_task runs to its first await.
BgStart ==
    /\ bg.pc = "scheduled"
    /\ \E now \in Days :
         IF RefreshDue(now, last_refreshed)
         THEN MonthlyDue(now) /\ bg' = [bg EXCEPT !.pc = "running"]
         ELSE MonthlyNotDue(now) /\ bg' = [bg EXCEPT !.pc = "done"]
    /\ UNCHANGED <<players, last_refreshed, persisted, data, last_update_success>>
    /\ UNCHANGED <<setup, init, first, registry, client, applied, services>>

\* await hass.config_entries.async_forward_entry_setups(...) returns, and
\* the first refresh is handed to a task, or raises.
InitForwarded ==
    /\ init.pc = "forward"
    /\ Yielded
    /\ \E ok \in BOOLEAN :
         IF ok
         THEN /\ registry' = [registry EXCEPT !.platforms_loaded = registry.entry]
              /\ first' = Scheduled
              /\ init' = [init EXCEPT !.pc = "done"]
         ELSE /\ init' = EndedWith(init, InitHandler("HostError"), "HostError")
              /\ UNCHANGED <<registry, first>>
    /\ UNCHANGED <<work, setup, bg, client, applied, services>>

\* The task of _async_refresh_all_coordinators runs to its first await.
FirstStart ==
    /\ first.pc = "scheduled"
    /\ Yielded
    /\ first' = [first EXCEPT !.pc = RefreshOrder[1]]
    /\ UNCHANGED <<work, setup, init, bg, registry, client, applied, services>>

\* The next coordinator in the order of the first refresh, or "done".
NextRefresh(p) ==
    IF \E k \in 1..(Len(RefreshOrder) - 1) : RefreshOrder[k] = p
    THEN RefreshOrder[(CHOOSE k \in 1..Len(RefreshOrder) : RefreshOrder[k] = p) + 1]
    ELSE "done"

\* await coord.async_refresh() of the first refresh returns, whatever the
\* cycle did, or the host raises.
FirstRefreshed ==
    /\ first.pc \in Pollers
    /\ Yielded
    /\ \E ok \in BOOLEAN :
         first' = IF ok THEN [first EXCEPT !.pc = NextRefresh(first.pc)]
                  ELSE EndedWith(first, RefreshAllHandler("HostError"), "HostError")
    /\ UNCHANGED <<work, setup, init, bg, registry, client, applied, services>>

\* async_unload_entry is called: an initialization that is not done is
\* cancelled; before the platforms were loaded the entry's data goes, and
\* the services with the last entry; else the unload of the platforms is
\* awaited.
Unload ==
    /\ setup = "returned"
    /\ IF init.pc \in {"scheduled", "monthly", "forward"}
       THEN /\ init' = EndedWith(init, InitHandler("CancelledError"), "CancelledError")
            /\ IF init.pc = "monthly" THEN Cancelled("monthly")
               ELSE UNCHANGED <<pc, last_exception, raised, loc, players, persisted>>
       ELSE UNCHANGED <<init, pc, last_exception, raised, loc, players, persisted>>
    /\ IF ~registry.entry THEN UNCHANGED <<setup, registry>>
       ELSE IF ~registry.platforms_loaded
       THEN setup' = "unloaded" /\ registry' = NoRegistry
       ELSE setup' = "unloading" /\ UNCHANGED registry
    /\ UNCHANGED <<last_refreshed, data, last_update_success, cycles, clock, bg, first, client, applied, services>>

\* await hass.config_entries.async_unload_platforms(...) returns.
UnloadPlatforms ==
    /\ setup = "unloading"
    /\ \E ok \in BOOLEAN :
         IF ok THEN setup' = "unloaded" /\ registry' = NoRegistry
         ELSE setup' = "returned" /\ UNCHANGED registry
    /\ UNCHANGED <<work, init, bg, first, client, applied, services>>

\* ------------------------------------------------------ helper functions

\* No helper function has been called.
NotApplied == [fn |-> "none", arg |-> EmptyDict, cache |-> NoPlayers, out |-> None]

\* A key the payload does not hold.
Absent == [t |-> "absent", i |-> 0, s |-> <<>>]

\* The object holding keys[k]: f[k] for every k whose f[k] is not Absent.
DictFrom(keys, f) ==
    [key \in {keys[k] : k \in {j \in 1..Len(keys) : f[j] # Absent}} |->
       f[CHOOSE k \in 1..Len(keys) : keys[k] = key]]

\* The values a candidate key of a season payload may hold.
SeasonValues == {Absent, None, PyStr(<<>>), PyStr(<<"5", "5">>), PyInt(7), PyStr(<<"x">>)}

\* The season payloads the pollers and the refresh may hand to
\* _extract_season.
SeasonPayloads == {DictFrom(SeasonKeys, f) : f \in [1..4 -> SeasonValues]}

\* season = _extract_season(season_payload): the season, or the ValueError.
ApplyExtractSeason ==
    /\ applied.fn = "none"
    /\ \E payload \in SeasonPayloads :
         applied' = [fn |-> "_extract_season", arg |-> payload, cache |-> NoPlayers,
                     out |-> IF _extract_season(payload).ok THEN PyInt(_extract_season(payload).v)
                             ELSE PyStr(<<"V", "a", "l", "u", "e", "E", "r", "r", "o", "r">>)]
    /\ UNCHANGED <<work, life, client, services>>

\* The keys of a player payload that the name is resolved from.
PlayerKeys == <<"Name", "FullName", "DisplayName", "FirstName", "LastName", "ID">>

\* The player payloads a fetch may hand to _player_name_from_payload: each
\* key absent, empty (or None, or blank) or filled.
PlayerPayloads ==
    {DictFrom(PlayerKeys, <<name, full, display, fn, ln, id>>) :
        name \in {Absent, PyStr(<<>>), PyStr(<<"N">>)},
        full \in {Absent, None, PyStr(<<"F">>)},
        display \in {Absent, PyStr(<<>>), PyStr(<<"D">>)},
        fn \in {Absent, PyStr(<<>>), PyStr(<<" ", "R", " ">>)},
        ln \in {Absent, PyStr(<<" ">>), PyStr(<<"O">>)},
        id \in {Absent, PyInt(42)}}

\* self.player_cache.players[pid] = _player_name_from_payload(payload)
ApplyPlayerName ==
    /\ applied.fn = "none"
    /\ \E payload \in PlayerPayloads :
         applied' = [fn |-> "_player_name_from_payload", arg |-> payload, cache |-> NoPlayers,
                     out |-> PyStr(_player_name_from_payload(payload))]
    /\ UNCHANGED <<work, life, client, services>>

\* The caches a row is decorated against.
Caches ==
    {NoPlayers, [i \in {1} |-> Ann], [i \in {1, 2} |-> IF i = 1 THEN Ann ELSE Bob], [i \in {0 - 1, 3} |-> Bob]}

\* The player ids a row may carry: ints, a string of digits, None.
RowPids == {PyInt(1), PyStr(<<"2">>), PyInt(3), PyInt(0 - 1), None}

\* Ranking rows: with a PlayerID, with an ID only, with both.
RankingRows ==
    {DictFrom(<<"PlayerID", "ID">>, <<a, b>>) : a \in (RowPids \ {None}) \cup {Absent}, b \in {Absent, PyInt(1)}}
      \ {EmptyDict}

\* "top10_money": decorate(money), of a table of one or two rows
ApplyDecorate ==
    /\ applied.fn = "none"
    /\ \E ps \in Caches, rows \in {<<r>> : r \in RankingRows} \cup {<<r, q>> : r \in RankingRows, q \in RankingRows} :
         applied' = [fn |-> "decorate", arg |-> rows, cache |-> ps, out |-> decorate(rows, ps)]
    /\ UNCHANGED <<work, life, client, services>>

\* matches.append({...}) for a raw match with its two players
ApplyScoresMatch ==
    /\ applied.fn = "none"
    /\ \E ps \in Caches, a \in RowPids \cup {Absent}, b \in RowPids :
         LET m == DictFrom(<<"Player1ID", "Player2ID">>, <<a, b>>)
         IN  applied' = [fn |-> "scores_match", arg |-> m, cache |-> ps,
                         out |-> ScoresMatch(m, ps, [i \in {} |-> NoEvent])]
    /\ UNCHANGED <<work, life, client, services>>

\* The raw events of a season: two of id 7 with different names, one that
\* names its id EventID as a string, one of id 3, one whose id does not
\* parse, one without an id.
RawEvents ==
    {Obj([ID |-> PyInt(7), Name |-> PyStr(Ann)]),
     Obj([ID |-> PyInt(7), Name |-> PyStr(Bob), City |-> PyStr(Ann)]),
     Obj([EventID |-> PyStr(<<"7">>), EventName |-> PyStr(<<"C">>)]),
     Obj([EID |-> PyInt(3), Name |-> PyStr(Bob)]),
     Obj([ID |-> PyStr(<<"x">>), EventID |-> PyInt(9)]),
     Obj([Name |-> PyStr(Ann)])}

\* The events are built from the raw events of up to MaxEvents answers.
ApplyEventsResult ==
    /\ applied.fn = "none"
    /\ \E n \in 0..MaxEvents : \E raws \in [1..n -> RawEvents] :
         LET raw_events == [k \in 1..n |-> Item(raws[k])]
         IN  applied' = [fn |-> "events_result", arg |-> raw_events, cache |-> NoPlayers,
                         out |-> EventsResult(2024, raw_events)]
    /\ UNCHANGED <<work, life, client, services>>

May2 == <<"2", "0", "2", "4", "-", "0", "5", "-", "0", "2">>
May1T10 == <<"2", "0", "2", "4", "-", "0", "5", "-", "0", "1", "T", "1", "0", ":", "0", "0">>
May1T09 == <<"2", "0", "2", "4", "-", "0", "5", "-", "0", "1", "T", "0", "9", ":", "0", "0">>

\* The raw upcoming matches of a tour: dated under each of the candidate
\* keys, one naming a tour of its own, one without a date, one with an empty
\* date.
UpcomingRaws ==
    {Obj([ScheduledDate |-> PyStr(May2), Player1ID |-> PyInt(1)]),
     Obj([StartDate |-> PyStr(May1T10), Tour |-> PyStr(<<"x">>)]),
     Obj([ScheduledDate |-> PyStr(<<>>), Date |-> PyStr(May1T09)]),
     Obj([Player1ID |-> PyInt(2)]),
     Obj([ScheduledDate |-> PyStr(<<>>)])}

\* The upcoming matches are built from what the two tours answered.
ApplyUpcoming ==
    /\ applied.fn = "none"
    /\ \E n1 \in 0..MaxMatches, n2 \in 0..1 :
         \E raws1 \in [1..n1 -> UpcomingRaws], raws2 \in [1..n2 -> UpcomingRaws] :
           LET all_matches == Tagged([k \in 1..n1 |-> Item(raws1[k])], Tours[1])
                                \o Tagged([k \in 1..n2 |-> Item(raws2[k])], Tours[2])
           IN  applied' = [fn |-> "upcoming", arg |-> <<raws1, raws2>>, cache |-> NoPlayers,
                           out |-> UpcomingResult(Decorated(all_matches))]
    /\ UNCHANGED <<work, life, client, services>>

\* The raw near-live matches of the sort: without a date and with one, of
\* the ids 5, 3 and 4.
ScoresRaws ==
    {Obj([ID |-> PyInt(5)]),
     Obj([ID |-> PyInt(3), ScheduledDate |-> PyStr(<<>>)]),
     Obj([ID |-> PyInt(5), ScheduledDate |-> PyStr(May1T10)]),
     Obj([ID |-> PyStr(<<"4">>), ScheduledDate |-> PyStr(May2)]),
     Obj([ID |-> PyInt(3), ScheduledDate |-> PyStr(May1T10), Score1 |-> PyInt(1)])}

\* The result of the scores poller is built from up to MaxMatches raw
\* matches whose players need no backfill.
ApplyScoresResult ==
    /\ applied.fn = "none"
    /\ \E n \in 0..MaxMatches : \E raw \in [1..n -> ScoresRaws] :
         applied' = [fn |-> "scores_result", arg |-> raw, cache |-> NoPlayers,
                     out |-> ScoresResult(ScoresMatches(raw, NoPlayers, [i \in {} |-> NoEvent]))]
    /\ UNCHANGED <<work, life, client, services>>

\* The ids of the caches that are saved and loaded: of one and of two
\* digits, zero and a negative one.
StoredIds == {0 - 1, 0, 7, 10}

\* The caches that are saved and loaded.
StoredCaches == UNION {[S -> {Ann, Bob}] : S \in SUBSET StoredIds}

\* save_player_cache writes the record of a cache and load_player_cache
\* reads it.
ApplySaveLoad ==
    /\ applied.fn = "none"
    /\ \E ps \in StoredCaches, last \in {None, IsoFormat(0), IsoFormat(MONTHLY_REFRESH_DAYS)} :
         applied' = [fn |-> "save_load", arg |-> SaveRecord(ps, last), cache |-> ps,
                     out |-> load_player_cache(SaveRecord(ps, last))]
    /\ UNCHANGED <<work, life, client, services>>

\* load_player_cache with no record in the store
ApplyLoadAbsent ==
    /\ applied.fn = "none"
    /\ applied' = [fn |-> "load_absent", arg |-> NoRecord, cache |-> NoPlayers,
                   out |-> load_player_cache(NoRecord)]
    /\ UNCHANGED <<work, life, client, services>>

\* ---------------------------------------------------- refresh services

\* The config entries that may be set up.
Entries == {1, 2}

\* The refresh services and the pollers each one refreshes, in its order.
ServiceKeys(service) ==
    CASE service = "refresh_season" -> <<"season">>
      [] service = "refresh_rankings" -> <<"rankings">>
      [] service = "refresh_upcoming" -> <<"upcoming">>
      [] service = "refresh_events" -> <<"events">>
      [] service = "refresh_scores" -> <<"scores">>
      [] OTHER -> <<"season", "rankings", "upcoming", "events", "scores">>

ServiceNames ==
    {"refresh_season", "refresh_rankings", "refresh_upcoming", "refresh_events", "refresh_scores", "refresh_all"}

\* No handler of a service runs.
NoCall ==
    [pc |-> "idle", service |-> "none", keys |-> <<>>, pos |-> 0, used |-> 0, at |-> 0,
     refreshed |-> [k \in Pollers |-> 0], requested |-> <<>>]

\* hass.data[DOMAIN] is empty and no service is registered.  slots are the
\* entries of the dict in insertion order, 0 for one that was popped;
\* created are the instances whose data holds the coordinators, loaded those
\* whose platforms_loaded is set, unloading those whose unload awaits the
\* platforms; registrations and removals count the times the six services
\* were registered and removed, and returned is what the last unload
\* returned.
NoServices ==
    [slots |-> <<>>, created |-> {}, loaded |-> {}, unloading |-> {}, registered |-> FALSE,
     registrations |-> 0, removals |-> 0, returned |-> "none", call |-> NoCall]

\* len(hass.data[DOMAIN])
Size(slots) == Cardinality({k \in 1..Len(slots) : slots[k] # 0})

\* The instances in hass.data[DOMAIN].
Live(slots) == {slots[k] : k \in 1..Len(slots)} \ {0}

\* _refresh_key and its caller run from the next step of the iteration over
\* hass.data[DOMAIN].values() to the next await, to the end of the handler or
\* to the RuntimeError of an iterator whose dict has changed size.
RECURSIVE Advance(_, _, _)
Advance(c, slots, created) ==
    IF c.keys = <<>> THEN [c EXCEPT !.pc = "done"]
    ELSE IF Size(slots) # c.used THEN [c EXCEPT !.pc = "raised"]
    ELSE LET rest == {k \in (c.pos + 1)..Len(slots) : slots[k] # 0}
             p == CHOOSE k \in rest : \A j \in rest : k <= j
         IN  IF rest = {}
             THEN Advance([c EXCEPT !.keys = Tail(c.keys), !.pos = 0, !.used = Size(slots)], slots, created)
             ELSE IF slots[p] \in created
             THEN [c EXCEPT !.pc = "await", !.pos = p, !.at = slots[p],
                            !.requested = Append(@, <<slots[p], Head(c.keys)>>)]
             ELSE Advance([c EXCEPT !.pos = p], slots, created)

\* async_setup_entry: hass.data[DOMAIN][entry_id] = {...: None}, and the
\* services are registered if they are not.
EntrySetUp ==
    /\ \E e \in Entries \ Live(services.slots) :
         /\ Len(services.slots) < MaxSetups
         /\ services' = [services EXCEPT !.slots = Append(@, e), !.registered = TRUE,
                                          !.registrations = IF services.registered THEN @ ELSE @ + 1]
    /\ UNCHANGED <<work, life, client, applied>>

\* _async_initialize_entry: data[DATA_COORD_...] = the five coordinators.
EntryCreated ==
    /\ \E e \in Live(services.slots) \ services.created :
         services' = [services EXCEPT !.created = @ \cup {e}]
    /\ UNCHANGED <<work, life, client, applied>>

\* _async_initialize_entry: the forward to the platforms has returned,
\* data[DATA_PLATFORMS_LOADED] = True.
EntryForwarded ==
    /\ \E e \in services.created \ services.loaded :
         services' = [services EXCEPT !.loaded = @ \cup {e}]
    /\ UNCHANGED <<work, life, client, applied>>

\* An unload that takes the registry for empty whatever it holds.
RegistryAlwaysEmpty(slots) == TRUE

\* not hass.data[DOMAIN]
RegistryEmpty(slots) == Size(slots) = 0

\* hass.data[DOMAIN].pop(entry_id), and the services are removed when the
\* registry is empty and has them.
Popped(sv, e) ==
    LET slots == [k \in 1..Len(sv.slots) |-> IF sv.slots[k] = e THEN 0 ELSE sv.slots[k]]
        removed == RegistryEmpty(slots) /\ sv.registered
    IN  [sv EXCEPT !.slots = slots, !.created = @ \ {e}, !.loaded = @ \ {e}, !.unloading = @ \ {e},
                   !.registered = @ /\ ~RegistryEmpty(slots), !.returned = "True",
                   !.removals = IF removed THEN @ + 1 ELSE @]

\* async_unload_entry is called: before the platforms were loaded the
\* entry's data is popped, else the unload of the platforms is awaited.
EntryUnloaded ==
    /\ \E e \in Live(services.slots) \ services.unloading :
         services' = IF e \in services.loaded
                     THEN [services EXCEPT !.unloading = @ \cup {e}]
                     ELSE Popped(services, e)
    /\ UNCHANGED <<work, life, client, applied>>

\* await hass.config_entries.async_unload_platforms(...) returns: with ok
\* the entry's data is popped, else nothing is and the unload returns False.
EntryPlatformsUnloaded ==
    /\ \E e \in services.unloading, ok \in BOOLEAN :
         services' = IF ok THEN Popped(services, e)
                     ELSE [services EXCEPT !.unloading = @ \ {e}, !.returned = "False"]
    /\ UNCHANGED <<work, life, client, applied>>

\* A refresh service is called: its handler runs to its first await.
ServiceCalled ==
    /\ services.registered
    /\ services.call.pc = "idle"
    /\ \E service \in ServiceNames :
         services' = [services EXCEPT !.call =
             Advance([NoCall EXCEPT !.pc = "run", !.service = service, !.keys = ServiceKeys(service),
                                    !.used = Size(services.slots)],
                     services.slots, services.created)]
    /\ UNCHANGED <<work, life, client, applied>>

\* await coord.async_request_refresh() returns: refreshed += 1, and the
\* handler runs to its next await.
ServiceResumed ==
    /\ services.call.pc = "await"
    /\ services' = [services EXCEPT !.call =
           Advance([@ EXCEPT !.pc = "run", !.at = 0, !.refreshed[Head(@.keys)] = @ + 1],
                   services.slots, services.created)]
    /\ UNCHANGED <<work, life, client, applied>>

\* ------------------------------------------------------- paced player fetch

\* The lists of player ids a paced fetch is called with.
FetchLists == {<<>>, <<1>>, <<2, 1>>}

\* paced_player_fetch at its call of get_player, with the ids it has still
\* to go through (the first is the one requested) and its local `out`.
Fetch(ids, out, at) ==
    [fn |-> "paced_player_fetch", arg |-> ids, cache |-> NoPlayers, out |-> [pc |-> at, out |-> out]]

\* self.get_player(pid): _get_json is entered and attempt 1 is sent.
PlayerCall(pid) ==
    LET call == [method |-> "get_player", season |-> None, ranking_type |-> None, tour |-> None, id |-> PyInt(pid)]
    IN  [IdleClient EXCEPT !.pc = "get", !.call = call, !.params = Params(call), !.attempt = 1,
                           !.sent = <<Request(Params(call))>>]

\* A loop that takes the same id again.
FetchRestSame(ids) == ids

\* for idx, pid in enumerate(player_ids, start=1): the ids after this one
FetchRest(ids) == Tail(ids)

\* paced_player_fetch is called: with no id it returns its empty `out`, else
\* it awaits get_player of the first.
FetchCalled ==
    /\ applied.fn = "none"
    /\ client.pc = "idle"
    /\ \E ids \in FetchLists :
         IF ids = <<>>
         THEN applied' = Fetch(ids, NoFetch.out, "returned") /\ UNCHANGED client
         ELSE applied' = Fetch(ids, NoFetch.out, "get_player") /\ client' = PlayerCall(ids[1])
    /\ UNCHANGED <<work, life, services>>

\* The request of the fetch is answered, by a 403 as often as the server
\* likes.
FetchResponse ==
    /\ applied.fn = "paced_player_fetch"
    /\ client.pc = "get"
    /\ \E r \in Responses :
         LET answer == [kind |-> r.kind, status |-> r.status, error |-> ErrorOf(r)]
             after == IF r.kind = "http" /\ r.status = 403 THEN RateLimited(client)
                      ELSE IF ErrorOf(r) # "none" THEN Failed(client, ErrorOf(r))
                      ELSE Succeeded(client, r.body)
         IN  client' = [after EXCEPT !.answer = answer]
    /\ UNCHANGED <<work, life, applied, services>>

\* asyncio.sleep(60) returns; continue: the request is sent again.  The
\* attempts, the seconds slept and the requests sent are counted up to
\* MaxAttempts.
FetchRetry ==
    /\ applied.fn = "paced_player_fetch"
    /\ client.pc = "sleep"
    /\ client' = [client EXCEPT !.pc = "get", !.answer = NoAnswer,
                                !.attempt = IF @ < MaxAttempts THEN @ + 1 ELSE @,
                                !.slept = IF client.attempt < MaxAttempts THEN @ + 60 ELSE @,
                                !.sent = IF client.attempt < MaxAttempts THEN Append(@, Request(client.params)) ELSE @]
    /\ UNCHANGED <<work, life, applied, services>>

\* await self.get_player(pid) returns, out[pid] is set and
\* asyncio.sleep(delay_s) is awaited, or raises, and the fetch raises.
FetchResumed ==
    /\ applied.fn = "paced_player_fetch" /\ applied.out.pc = "get_player"
    /\ client.pc \in {"returned", "raised"}
    /\ applied' = IF client.pc = "raised" THEN Fetch(applied.arg, NoFetch.out, "raised")
                  ELSE Fetch(applied.arg, Fetched([ids |-> applied.arg, out |-> applied.out.out], client.payload).out,
                             "sleep")
    /\ client' = IdleClient
    /\ UNCHANGED <<work, life, services>>

\* await asyncio.sleep(delay_s) returns: the next id is requested, or the
\* loop is over and `out` is returned.
FetchSlept ==
    /\ applied.fn = "paced_player_fetch" /\ applied.out.pc = "sleep"
    /\ IF FetchRest(applied.arg) = <<>>
       THEN applied' = Fetch(<<>>, applied.out.out, "returned") /\ UNCHANGED client
       ELSE /\ applied' = Fetch(FetchRest(applied.arg), applied.out.out, "get_player")
            /\ client' = PlayerCall(FetchRest(applied.arg)[1])
    /\ UNCHANGED <<work, life, services>>

\* ----------------------------------------------------------- specification

\* The records the store may hold when the entry is set up: none, one with
\* a player, one a refresh without players has stamped, and one whose stamp
\* does not parse.
InitRecords ==
    {NoRecord, SaveRecord([i \in {1} |-> Ann], IsoFormat(0)), SaveRecord(NoPlayers, IsoFormat(0)),
     SaveRecord([i \in {1} |-> Ann], PyStr(<<"x">>))}

\* No cycle has run and no task is made.
Fresh ==
    /\ data = [p \in Pollers |->
                 CASE p = "season" -> NoSeason
                   [] p = "rankings" -> NoRankings
                   [] p = "upcoming" -> NoUpcoming
                   [] p = "events" -> NoEvents
                   [] OTHER -> NoScores]
    /\ last_update_success = [p \in Pollers |-> TRUE]
    /\ last_exception = [t \in Tasks |-> "none"]
    /\ raised = [t \in Tasks |-> NoRaise]
    /\ pc = [t \in Tasks |-> "idle"]
    /\ loc = InitialLocals
    /\ cycles = [t \in Tasks |-> 0]
    /\ clock = 0
    /\ bg = NoTask
    /\ first = NoTask
    /\ client = IdleClient
    /\ applied = NotApplied
    /\ services = NoServices

\* async_setup_entry has returned: the cache is loaded and the
\* initialization is scheduled.
Init ==
    /\ persisted \in InitRecords
    /\ players = load_player_cache(persisted).players
    /\ last_refreshed = load_player_cache(persisted).last_refreshed
    /\ Fresh
    /\ setup = "returned"
    /\ init = [pc |-> "scheduled", raised |-> "none", created |-> FALSE]
    /\ registry = Registered

Next ==
    \/ InitStart \/ BgStart \/ InitForwarded
    \/ SeasonStart \/ SeasonResponse
    \/ RankingsStart \/ RankingsSeason \/ RankingsMoney \/ RankingsOneYear
    \/ UpcomingStart \/ UpcomingTour \/ UpcomingPlayer \/ UpcomingSave
    \/ EventsStart \/ EventsSeason \/ EventsTour
    \/ ScoresStart \/ ScoresTour \/ ScoresPlayer \/ ScoresSave
    \/ MonthlySeason \/ MonthlyRankings \/ MonthlyPlayer \/ MonthlySave
    \/ CancelRefresh
    \/ \E t \in Pollers : Cancel(t)

Spec == Init /\ [][Next]_vars

\* The entry is not set up: there is no cache object, no task, nothing
\* registered.
InitSetup ==
    /\ persisted \in InitRecords
    /\ players = NoPlayers
    /\ last_refreshed = None
    /\ Fresh
    /\ setup = "none"
    /\ init = [pc |-> "none", raised |-> "none", created |-> FALSE]
    /\ registry = NoRegistry

\* The entry from its setup to its unload; the cycles of the pollers are
\* left to the host.
NextSetup ==
    \/ SetupCalled \/ SetupLoaded \/ SetupReturn
    \/ InitStart \/ BgStart \/ InitForwarded
    \/ MonthlySeason \/ MonthlyRankings \/ MonthlyPlayer \/ MonthlySave
    \/ FirstStart \/ FirstRefreshed
    \/ Unload \/ UnloadPlatforms
    \/ CancelRefresh

SpecSetup == InitSetup /\ [][NextSetup]_vars

\* The calls of the client, one in a behaviour.
NextClient == ClientCall \/ ClientResponse \/ ClientWake \/ ClientCancel

SpecClient == Init /\ [][NextClient]_vars

\* The calls of the helper functions.
NextHelpers ==
    \/ ApplyExtractSeason \/ ApplyPlayerName \/ ApplyDecorate \/ ApplyScoresMatch
    \/ ApplyEventsResult \/ ApplyUpcoming \/ ApplyScoresResult
    \/ ApplySaveLoad \/ ApplyLoadAbsent

SpecHelpers == Init /\ [][NextHelpers]_vars

\* The instances come and go while a refresh service is called.
NextServices ==
    \/ EntrySetUp \/ EntryCreated \/ EntryForwarded \/ EntryUnloaded \/ EntryPlatformsUnloaded
    \/ ServiceCalled \/ ServiceResumed

SpecServices == Init /\ [][NextServices]_vars

\* One paced fetch whose requests go through _get_json.  Every request is
\* answered (the timeout of 30 s answers when the server does not), every
\* sleep returns and the coroutine is resumed when what it awaits is done.
NextFetch == FetchCalled \/ FetchResponse \/ FetchRetry \/ FetchResumed \/ FetchSlept

SpecFetch ==
    /\ Init /\ [][NextFetch]_vars
    /\ WF_vars(FetchResponse) /\ WF_vars(FetchRetry) /\ WF_vars(FetchResumed) /\ WF_vars(FetchSlept)

\* ------------------------------------------------ failure containment

\* The step is the end of a cycle of task t.
Ended(t) == pc'[t] = "idle" /\ (pc[t] # "idle" \/ cycles'[t] # cycles[t])

\* C1: when a cycle of any of the five pollers ends with an exception raised
\* in its body, the host sees an update failure, and the data the poller
\* published before stays as it was: what the cycle had built is dropped.
C1_FailedCycleKeepsData ==
    [][\A p \in Pollers :
         (Ended(p) /\ raised'[p].site = "body")
           => /\ last_exception'[p] = "UpdateFailed"
              /\ ~last_update_success'[p]
              /\ data'[p] = data[p]]_vars

\* A poller that had published a result, and whose later cycle failed.
C1_Witness ==
    \E p \in Pollers :
        /\ data[p].has
        /\ raised[p].site = "body"
        /\ last_exception[p] = "UpdateFailed"
        /\ ~last_update_success[p]

\* The players a backfill of poller p asked for: those it has fetched and
\* those it has yet to fetch.
Asked(p) == DOMAIN loc[p].fetch.out \cup {loc[p].fetch.ids[k] : k \in 1..Len(loc[p].fetch.ids)}

\* The names of the two sides of a scores match are placeholders wherever
\* the player was one the backfill asked for.
KeepsPlaceholders(m, asked) ==
    /\ (Truthy(m.Player1ID) /\ m.Player1ID.i \in asked) => m.Player1Name = Placeholder(m.Player1ID.i)
    /\ (Truthy(m.Player2ID) /\ m.Player2ID.i \in asked) => m.Player2Name = Placeholder(m.Player2ID.i)

\* C4: when the backfill of the upcoming or the scores poller fails, in a
\* player request or in writing the cache, the cycle succeeds and publishes
\* its match list; in the scores list every player the backfill asked for
\* keeps the placeholder "#<id>".
C4_BackfillFailureContained ==
    [][/\ (Ended("upcoming") /\ raised'["upcoming"].site = "backfill")
            => /\ last_update_success'["upcoming"]
               /\ last_exception'["upcoming"] = "none"
               /\ data'["upcoming"] = UpcomingResult(loc["upcoming"].decorated)
       /\ (Ended("scores") /\ raised'["scores"].site = "backfill")
            => /\ last_update_success'["scores"]
               /\ last_exception'["scores"] = "none"
               /\ data'["scores"] = ScoresResult(loc["scores"].matches)
               /\ \A k \in 1..Len(data'["scores"].matches) :
                    KeepsPlaceholders(data'["scores"].matches[k], Asked("scores"))]_vars

\* The scores poller published matches after a failed backfill, a placeholder
\* among the names.
C4_Witness ==
    /\ raised["scores"].site = "backfill"
    /\ last_update_success["scores"]
    /\ data["scores"].has
    /\ \E k \in 1..Len(data["scores"].matches) :
         LET m == data["scores"].matches[k]
         IN  Truthy(m.Player1ID) /\ m.Player1Name = Placeholder(m.Player1ID.i)

\* ------------------------------------------------------------ rate limits

\* The request the client sent last.
LastSent(c) == c.sent[Len(c.sent)]

\* C2: a 403 puts the client to sleep, whatever the attempt, and the sleep of
\* 60 seconds is followed by the same request, parameters and header; no
\* call ends in an error whose answer was a 403.
C2_RateLimitRetried ==
    [][/\ (client.pc = "get" /\ client'.answer.status = 403)
            => /\ client'.pc = "sleep"
               /\ client'.sent = client.sent
       /\ (client.pc = "sleep" /\ client'.pc \notin {"sleep", "cancelled"})
            => /\ client'.pc = "get"
               /\ client'.slept = client.slept + 60
               /\ client'.attempt = client.attempt + 1
               /\ client'.sent = Append(client.sent, LastSent(client))
               /\ LastSent(client').params = Params(client.call)
               /\ LastSent(client').headers = _headers
       /\ client'.pc = "raised" => client'.answer.status # 403]_vars

\* A call returned its payload after 403s on all attempts but the last.
C2_Witness ==
    /\ client.pc = "returned"
    /\ client.attempt = MaxAttempts
    /\ client.slept = 60 * (MaxAttempts - 1)
    /\ Len(client.sent) = MaxAttempts

\* C3: an answer that is an error and no 403 (an error status, a timeout, a
\* failed connection, a body that does not decode) ends the call with that
\* error at once: nothing is slept and nothing is sent again.
C3_OtherErrorsPropagate ==
    [][(client.pc = "get" /\ client'.pc # "cancelled" /\ client'.answer.error # "none"
          /\ client'.answer.status # 403)
         => /\ client'.pc = "raised"
            /\ client'.result = client'.answer.error
            /\ client'.slept = client.slept
            /\ client'.sent = client.sent
            /\ client'.attempt = client.attempt]_vars

\* A call ended with the error of a body that does not decode, on a second
\* attempt.
C3_Witness ==
    /\ client.pc = "raised"
    /\ client.result = "JSONDecodeError"
    /\ client.attempt = 2
    /\ client.slept = 60

\* ------------------------------------------------------ the player cache

\* The tasks that fetch players in a batch.
Fetchers == {"upcoming", "scores", "monthly"}

\* C5: a task that fails or is cancelled before its paced fetch has returned
\* leaves the mapping, the refresh stamp and the persisted record as they
\* were; and the persisted record only ever becomes the snapshot a task took
\* of the cache when its whole batch was merged.
C5_OnlyCompleteBatches ==
    [][/\ \A t \in Fetchers :
            (pc[t] \in {"get_current_season", "get_rankings", "get_player"} /\ pc'[t] = "idle")
              => UNCHANGED <<players, last_refreshed, persisted>>
       /\ \A t \in Fetchers :
            (pc[t] # "save" /\ pc'[t] = "save")
              => /\ loc'[t].fetch.ids = <<>>
                 /\ DOMAIN loc'[t].fetch.out \subseteq DOMAIN players'
                 /\ loc'[t].snap = SaveRecord(players', last_refreshed')
       /\ persisted' # persisted
            => \E t \in Fetchers : pc[t] = "save" /\ persisted' = loc[t].snap]_vars

\* One backfill has merged its batch and written the cache, and the paced
\* fetch of another has failed: the record is the cache of the first.
C5_Witness ==
    \E p \in {"upcoming", "scores"} :
        /\ raised[p] = InBackfill("ClientError")
        /\ persisted \notin InitRecords
        /\ persisted = SaveRecord(players, last_refreshed)

\* C6: the missing players a backfill has yet to request (those after the
\* one whose request it awaits) are missing still: none of them is a player
\* that was added to the cache in the meantime.
C6_MissingIsCurrent ==
    \A p \in {"upcoming", "scores"} :
        pc[p] = "get_player" =>
            \A k \in 2..Len(loc[p].fetch.ids) : loc[p].fetch.ids[k] \notin DOMAIN players

\* C7: every key of the mapping is a positive integer.
C7_PositiveKeys == \A i \in DOMAIN players : i > 0

\* C8: every value of the mapping is a non-empty string.
C8_NonEmptyNames == \A i \in DOMAIN players : players[i] # <<>>

\* The cache holds a name made for a payload with no usable name field.
C8_Witness == \E i \in DOMAIN players : players[i] = PlayerWord \o IntToStr(i)

\* -------------------------------------------------------- tasks and setup

\* C9: an exception that reaches the handler of the background refresh
\* task, of the first refresh task or of the initialization is logged and
\* the task ends; only the cancellation of the initialization is raised
\* again; no task ends with an unhandled exception.
C9_TaskFailuresCaught ==
    /\ init.raised # "none" => init.pc = (IF init.raised = "CancelledError" THEN "cancelled" ELSE "logged")
    /\ bg.raised \notin {"none", "CancelledError"} => bg.pc = "logged"
    /\ first.raised \notin {"none", "CancelledError"} => first.pc = "logged"
    /\ "crashed" \notin {init.pc, bg.pc, first.pc}

\* The refresh failed in the background task and the first refresh failed,
\* and both were logged.
C9_Witness ==
    /\ bg.pc = "logged"
    /\ bg.raised \in {"ClientError", "ValueError", "StoreError"}
    /\ first.pc = "logged"
    /\ first.raised = "HostError"

\* C10: the steps of async_setup_entry leave every coroutine that talks to
\* the API where it is; when it returns the cache is loaded, the
\* initialization is handed to a task and nothing that task awaits has
\* been answered; and the refresh of the cache is only ever under way in the
\* initialization or in the background task.
C10_SetupDoesNotWait ==
    [][/\ setup' # setup /\ setup \in {"none", "load", "scheduled"} => pc' = pc
       /\ (setup = "scheduled" /\ setup' = "returned")
            => /\ players' = load_player_cache(persisted').players
               /\ init'.pc \in {"scheduled", "monthly", "forward"}
               /\ pc'["monthly"] \in {"idle", "get_current_season"}
               /\ cycles'["monthly"] = 1 => pc'["monthly"] = "get_current_season"
       /\ pc'["monthly"] # "idle" => (init'.pc = "monthly" \/ bg'.pc = "running")]_vars

\* The setup has returned while the first request of the refresh, which the
\* initialization awaits, is not answered.
C10_Witness ==
    /\ setup = "returned"
    /\ init.pc = "monthly"
    /\ pc["monthly"] = "get_current_season"

\* ------------------------------------------------------ the monthly refresh

\* maybe_refresh_player_cache_monthly is called in this step: by the
\* initialization, the cache empty, or by the background task.
RefreshCalled ==
    \/ init.pc = "scheduled" /\ init'.pc # "scheduled" /\ players = NoPlayers
    \/ bg.pc = "scheduled" /\ bg'.pc # "scheduled"

\* The stamp of the cache is that of a day less than 30 days before now.
StampedWithin30(now) == \E d \in 0..MaxDay : last_refreshed = IsoFormat(d) /\ now - d < 30

\* C11: a call of the monthly refresh with a stamp less than 30 days old
\* returns at once: no request is awaited, the cache and the stored record
\* stay as they are.  With no stamp, a stamp that does not parse or one of
\* 30 days or more the refresh proceeds to its first request, that of the
\* current season.
C11_DueCheck ==
    [][RefreshCalled =>
         IF StampedWithin30(clock')
         THEN /\ pc' = pc /\ loc' = loc /\ cycles' = cycles
              /\ players' = players /\ last_refreshed' = last_refreshed /\ persisted' = persisted
         ELSE /\ pc'["monthly"] = "get_current_season"
              /\ cycles'["monthly"] = cycles["monthly"] + 1]_vars

\* The refresh was called 29 days after the stamp and has returned without
\* a cycle.
C11_Witness ==
    /\ clock = 29 /\ last_refreshed = IsoFormat(0)
    /\ bg.pc = "done" /\ cycles["monthly"] = 0 /\ pc["monthly"] = "idle"

\* The player id of a ranking row: its PlayerID, its ID when it has no
\* PlayerID, None when it has neither.
RowId(r) == IF "PlayerID" \in DOMAIN r THEN r["PlayerID"] ELSE IF "ID" \in DOMAIN r THEN r["ID"] ELSE None

\* The ids of the first 100 rows.
RowIds(rankings) ==
    {ToInt(RowId(rankings[k])) : k \in {j \in 1..Len(rankings) : j <= 100 /\ RowId(rankings[j]).t # "none"}}

\* The refresh merges what it fetched, in this step, and awaits the save.
RefreshMerged == pc["monthly"] \in {"get_rankings", "get_player"} /\ pc'["monthly"] = "save"

\* The save of the refresh returns in this step, and the refresh with it.
RefreshSaved == pc["monthly"] = "save" /\ pc'["monthly"] = "idle" /\ raised'["monthly"] = NoRaise

\* What the merge of a refresh does to the cache: every id of the first 100
\* rows has the name of its payload, every other entry is as it was, the
\* cache is stamped with the time of the call, and the record handed to the
\* store is the cache.
MergeIsComplete ==
    LET l == loc'["monthly"]
    IN  /\ \A id \in RowIds(l.rankings) :
              id \in DOMAIN players' /\ players'[id] = _player_name_from_payload(l.fetch.out[id])
        /\ \A id \in (DOMAIN players \cup DOMAIN players') \ RowIds(l.rankings) :
              id \in DOMAIN players /\ id \in DOMAIN players' /\ players'[id] = players[id]
        /\ last_refreshed' = IsoFormat(l.now)
        /\ l.snap = SaveRecord(players', last_refreshed')

\* C12 as stated: when the refresh has completed, the stored record is the
\* cache in memory.
C12_StoredIsCache ==
    [][/\ RefreshMerged => MergeIsComplete
       /\ RefreshSaved => persisted' = SaveRecord(players', last_refreshed')]_vars

\* C12, amended: the merge of a due refresh gives every id of the first 100
\* money-ranking rows (PlayerID, else ID) the name of its fetched payload,
\* leaves every other entry alone and stamps the cache; the record stored
\* when the refresh completes is the cache as it was at that merge, which a
\* backfill may have extended while the save was awaited.
C12_StoredIsMergedCache ==
    [][/\ RefreshMerged => MergeIsComplete
       /\ RefreshSaved => persisted' = loc["monthly"].snap]_vars

\* A refresh has completed: the players 1 and 2 of the rows are in the
\* cache, stamped, and stored.
C12_Witness ==
    /\ cycles["monthly"] = 1 /\ pc["monthly"] = "idle" /\ raised["monthly"] = NoRaise
    /\ last_exception["monthly"] = "none"
    /\ DOMAIN players = {1, 2} /\ players[1] = Ann /\ players[2] = PlayerWord \o <<"2">>
    /\ last_refreshed = IsoFormat(clock)
    /\ persisted = SaveRecord(players, last_refreshed)

\* ------------------------------------------------------ season extraction

\* The candidate keys in the order of the specification.
CandidateKeys == <<"Season", "ID", "CurrentSeason", "SeasonID">>

\* The integer a candidate value stands for, -1 for a value that is None,
\* empty or no integer.
SeasonOf(v) ==
    CASE v = PyStr(<<"5", "5">>) -> 55
      [] v = PyInt(7) -> 7
      [] v = PyInt(2024) \/ v = PyStr(<<"2", "0", "2", "4">>) -> 2024
      [] OTHER -> 0 - 1

\* The k-th candidate key of the payload is present with a usable value.
Usable(p, k) == CandidateKeys[k] \in DOMAIN p /\ SeasonOf(p[CandidateKeys[k]]) # 0 - 1

\* C13: the season extracted from a payload is the integer of the first of
\* Season, ID, CurrentSeason, SeasonID whose value is present, non-empty and
\* an integer; keys before it that are absent, None, empty or no integer are
\* passed over.
C13_FirstUsableKeyWins ==
    applied.fn = "_extract_season" =>
        \A k \in 1..4 :
            Usable(applied.arg, k) /\ (\A j \in 1..(k - 1) : ~Usable(applied.arg, j))
                => applied.out = PyInt(SeasonOf(applied.arg[CandidateKeys[k]]))

\* A payload with only SeasonID "55" gave 55.
C13_Witness ==
    /\ applied.fn = "_extract_season"
    /\ DOMAIN applied.arg = {"SeasonID"} /\ applied.arg["SeasonID"] = PyStr(<<"5", "5">>)
    /\ applied.out = PyInt(55)

\* The awaits of a task at which a request made with the season is under
\* way, or behind it.
WithSeason(t) ==
    CASE t = "rankings" -> {"get_rankings_money", "get_rankings_one_year"}
      [] t = "events" -> {"get_events_in_season"}
      [] OTHER -> {"get_rankings", "get_player", "save"}

\* C14: the rankings poller, the events poller and the monthly refresh
\* request rankings or events only with the season of a payload that has a
\* usable candidate key; a payload without one ends the cycle with the
\* ValueError of the extraction, and no season, zero or other, stands in.
C14_NoSeasonNoRequest ==
    \A t \in {"rankings", "events", "monthly"} :
        pc[t] \in WithSeason(t) =>
            \E k \in 1..4 :
                /\ Usable(loc[t].season_payload, k)
                /\ \A j \in 1..(k - 1) : ~Usable(loc[t].season_payload, j)
                /\ loc[t].season = SeasonOf(loc[t].season_payload[CandidateKeys[k]])

\* A cycle of the events poller has ended with the ValueError of the
\* extraction, reported as a failed update, without a result.
C14_Witness ==
    /\ raised["events"] = InBody("ValueError") /\ last_exception["events"] = "UpdateFailed"
    /\ ~last_update_success["events"] /\ pc["events"] = "idle"
    /\ data["events"] = NoEvents

\* -------------------------------------------------------- name resolution

\* The payload holds the key with a string that is not empty.
Given(p, key) == key \in DOMAIN p /\ p[key].t = "str" /\ p[key].s # <<>>

\* The trimmed first or last name of the payload, empty when the key is
\* absent or blank.
Trimmed(p, key) ==
    IF key \notin DOMAIN p THEN <<>>
    ELSE CASE p[key] = PyStr(<<" ", "R", " ">>) -> <<"R">>
           [] p[key] = PyStr(<<"O">>) -> <<"O">>
           [] OTHER -> <<>>

\* The name the specification's rule gives a payload.
ExpectedName(p) ==
    LET fn == Trimmed(p, "FirstName")
        ln == Trimmed(p, "LastName")
        joined == IF fn # <<>> /\ ln # <<>> THEN fn \o <<" ">> \o ln ELSE fn \o ln
    IN  IF Given(p, "Name") THEN p["Name"].s
        ELSE IF Given(p, "FullName") THEN p["FullName"].s
        ELSE IF Given(p, "DisplayName") THEN p["DisplayName"].s
        ELSE IF joined # <<>> THEN joined
        ELSE <<"P", "l", "a", "y", "e", "r", " ">> \o (IF "ID" \in DOMAIN p THEN <<"4", "2">> ELSE <<"?">>)

\* C15: the name resolved from a player payload is the first of Name,
\* FullName, DisplayName that is present and not empty; else the trimmed
\* first name, a space and the trimmed last name, trimmed; else "Player "
\* and the ID of the payload, "?" when it has none.
C15_NameResolution ==
    applied.fn = "_player_name_from_payload" => applied.out = PyStr(ExpectedName(applied.arg))

\* A payload with a first and a last name only gave the two names joined.
C15_Witness ==
    /\ applied.fn = "_player_name_from_payload"
    /\ DOMAIN applied.arg = {"FirstName", "LastName"}
    /\ applied.out = PyStr(<<"R", " ", "O">>)

\* ------------------------------------------------------------- decoration

\* The player id a value refers to, 0 when it refers to none.
IdOf(v) ==
    CASE v = PyInt(1) -> 1 [] v = PyStr(<<"2">>) -> 2 [] v = PyInt(3) -> 3 [] v = PyInt(0 - 1) -> 0 - 1
      [] OTHER -> 0

\* The player a ranking row refers to: its PlayerID, else its ID.
RankedId(r) == IF "PlayerID" \in DOMAIN r THEN IdOf(r["PlayerID"]) ELSE IdOf(r["ID"])

\* "#" and the id
Hash(id) ==
    CASE id = 1 -> <<"#", "1">> [] id = 2 -> <<"#", "2">> [] id = 3 -> <<"#", "3">>
      [] OTHER -> <<"#", "-", "1">>

\* The name the cache gives an id, "#<id>" for an id it does not hold.
NameIn(cache, id) == IF id \in DOMAIN cache THEN cache[id] ELSE Hash(id)

SingularReturned ==
    client.pc = "returned" /\ client.call.method \in {"get_current_season", "get_player"}

\* C17: a method that returns one object gives, for a bare object, that
\* object, which is also what it gives for the one-element list of that object;
\* it gives the empty object for an empty list, for a list whose first member is
\* no object and for a payload that is neither an object nor a list.
C17_SingularNormalized ==
    SingularReturned =>
      LET p == client.payload
      IN  /\ client.result.kind = "dict"
          /\ p.kind = "dict" =>
               /\ client.result.d = p.d
               /\ Normalized(client.call.method, JList(<<Item(p.d)>>)) = client.result
          /\ p.kind = "list" /\ Len(p.items) = 1 /\ p.items[1].isdict => client.result.d = p.items[1].d
          /\ p.kind = "list" /\ p.items = <<>> => client.result.d = EmptyDict
          /\ p.kind = "list" /\ p.items # <<>> /\ ~p.items[1].isdict => client.result.d = EmptyDict
          /\ p.kind \notin {"dict", "list"} => client.result.d = EmptyDict

\* get_player was answered with a one-element list and returned its object.
C17_Witness ==
    /\ SingularReturned
    /\ client.payload = JList(<<Item(Obj([ID |-> PyInt(1)]))>>)
    /\ client.result = JObj(Obj([ID |-> PyInt(1)]))

\* ---------------------------------------------------- list normalisation

\* The methods of the client that are declared to return a list of objects.
ListMethods ==
    {"get_rankings", "get_upcoming_matches", "get_events_in_season", "get_current_matches",
     "get_matches_of_event"}

\* A list whose members are all objects.
ListOfObjects(v) == v.kind = "list" /\ \A k \in 1..Len(v.items) : v.items[k].isdict

\* The objects of a payload, in order: the members of a list that are objects,
\* the one object of a bare object, none otherwise.
ObjectsOf(p) ==
    CASE p.kind = "dict" -> <<Item(p.d)>>
      [] p.kind = "list" -> SelectSeq(p.items, IsDictItem)
      [] OTHER -> <<>>

\* C18: every method of the client that returns a list returns a list of
\* objects: the object members of the payload in order, a bare object as a
\* one-element list.
C18_ListMethodsReturnLists ==
    client.pc = "returned" /\ client.call.method \in ListMethods =>
      /\ ListOfObjects(client.result)
      /\ client.result.items = ObjectsOf(client.payload)

\* The same, of the two methods that pass their payload through _as_list.
C18_AsListMethodsReturnLists ==
    client.pc = "returned" /\ client.call.method \in {"get_rankings", "get_current_matches"} =>
      /\ ListOfObjects(client.result)
      /\ client.result.items = ObjectsOf(client.payload)

\* get_upcoming_matches was answered with a bare object and returned it.
C18_BareObjectReturned ==
    /\ client.pc = "returned" /\ client.call.method = "get_upcoming_matches"
    /\ client.payload.kind = "dict" /\ client.result = client.payload

\* get_matches_of_event returned a list with a member that is no object.
C18_NonObjectMemberReturned ==
    /\ client.pc = "returned" /\ client.call.method = "get_matches_of_event"
    /\ client.result.kind = "list" /\ ~ListOfObjects(client.result)

\* ------------------------------------------------- rankings are read-only

\* A step of the rankings poller: its refresh starts, resumes or ends.
RankingsStep == pc'["rankings"] # pc["rankings"] \/ cycles'["rankings"] # cycles["rankings"]

\* What the rankings poller awaits: the season and the two tables.
RankingsAwaits == {"idle", "get_current_season", "get_rankings_money", "get_rankings_one_year"}

\* C19: no step of a rankings refresh, one that ends it with a result or with
\* a failure included, adds, changes or removes an entry of the player cache,
\* changes its stamp or the stored record, or awaits a player request or a
\* save.
C19_RankingsReadOnly ==
    [][RankingsStep =>
         /\ players' = players /\ last_refreshed' = last_refreshed /\ persisted' = persisted
         /\ pc'["rankings"] \in RankingsAwaits]_vars

\* The rankings poller has published a row under the placeholder of a
\* player that the cache does not hold.
C19_Witness ==
    /\ data["rankings"].has /\ pc["rankings"] = "idle" /\ last_update_success["rankings"]
    /\ \E k \in 1..Len(data["rankings"].top10_money) :
         LET row == data["rankings"].top10_money[k]
         IN  /\ ToInt(RankingPid(row.row)) \notin DOMAIN players
             /\ row.PlayerName = Placeholder(ToInt(RankingPid(row.row)))

\* ------------------------------------------------- the season of a poller

\* The pollers that need the season.
SeasonUsers == {"rankings", "events"}

\* The season poller has published a payload.
SeasonPublished == data["season"].has

\* The poller t starts a refresh.
Starts(t) == cycles'[t] # cycles[t]

\* The poller t sends a current-season request of its own.
RequestsSeason(t) == pc'[t] = "get_current_season" /\ pc[t] # "get_current_season"

\* The poller t goes on with the payload the season poller published.
UsesPublished(t) ==
    /\ pc'[t] # "get_current_season"
    /\ pc'[t] # "idle" => loc'[t].season_payload = data["season"].payload

\* C20 as stated: with a payload published by the season poller, the
\* rankings and events pollers send no current-season request of their own.
C20_PublishedSeasonUsed ==
    [][\A t \in SeasonUsers : SeasonPublished => ~RequestsSeason(t)]_vars

\* C20: a refresh of the rankings or events poller that starts with a
\* non-empty payload published by the season poller goes on with that payload
\* and sends no current-season request; one that starts with no published
\* payload, or with an empty one, requests the current season; and no request
\* for the season is sent at any other point.
C20_NonEmptyPublishedSeasonUsed ==
    [][\A t \in SeasonUsers :
         /\ Starts(t) /\ SeasonPublished /\ data["season"].payload # EmptyDict => UsesPublished(t)
         /\ Starts(t) /\ ~(SeasonPublished /\ data["season"].payload # EmptyDict) => RequestsSeason(t)
         /\ RequestsSeason(t) => Starts(t)]_vars

\* The events poller awaits its events with the season of the payload the
\* season poller published.
C20_Witness ==
    /\ SeasonPublished /\ data["season"].payload # EmptyDict
    /\ pc["events"] = "get_events_in_season"
    /\ loc["events"].season_payload = data["season"].payload

\* With an empty payload published, the rankings poller requests the season.
C20_EmptyPublishedRefetched ==
    SeasonPublished /\ data["season"].payload = EmptyDict /\ pc["rankings"] = "get_current_season"

\* ------------------------------------------------------------ events output

\* The id a raw event carries: the first of ID, EventID, EID that holds a
\* number or digits; 0 when that value does not parse or none holds a value.
CarriedId(raw) ==
    LET named == IF "ID" \in DOMAIN raw THEN raw["ID"]
                 ELSE IF "EventID" \in DOMAIN raw THEN raw["EventID"]
                 ELSE IF "EID" \in DOMAIN raw THEN raw["EID"] ELSE None
    IN  CASE named = PyInt(7) -> 7 [] named = PyStr(<<"7">>) -> 7 [] named = PyInt(3) -> 3 [] OTHER -> 0

\* The name a raw event gives: its Name, else its EventName.
CarriedName(raw) ==
    IF "Name" \in DOMAIN raw THEN raw["Name"].s
    ELSE IF "EventName" \in DOMAIN raw THEN raw["EventName"].s ELSE <<>>

\* The places of the raw events that carry the id i.
Carrying(raw_events, i) == {k \in 1..Len(raw_events) : CarriedId(raw_events[k].d) = i}

\* The last place of a set of places.
LastOf(S) == CHOOSE k \in S : \A j \in S : j <= k

DateOf(raw) ==
    IF "ScheduledDate" \in DOMAIN raw /\ raw["ScheduledDate"].s # <<>> THEN raw["ScheduledDate"].s
    ELSE IF "StartDate" \in DOMAIN raw /\ raw["StartDate"].s # <<>> THEN raw["StartDate"].s
    ELSE IF "Date" \in DOMAIN raw /\ raw["Date"].s # <<>> THEN raw["Date"].s
    ELSE <<>>

\* The dates of the raw matches.
Dates == {May2, May1T10, May1T09}

\* How many of the raw matches of one tour are scheduled on the date d.
ScheduledOn(raws, d) == Cardinality({k \in 1..Len(raws) : DateOf(raws[k]) = d})

\* How many of the published matches carry the tour tr and the date d.
PublishedOn(matches, tr, d) ==
    Cardinality({k \in 1..Len(matches) : matches[k].Tour = tr /\ matches[k].ScheduledDate = d})

\* C22: every published upcoming match has a schedule date, and the
\* published matches of a tour and a date are as many as the raw matches that
\* tour's fetch gave for that date: a raw match without a date is dropped, and
\* each match carries the code of the tour it was fetched for.
C22_DatedAndTagged ==
    applied.fn = "upcoming" =>
      LET matches == applied.out.matches
      IN  /\ \A k \in 1..Len(matches) : matches[k].ScheduledDate \in Dates /\ matches[k].Tour \in {Tours[1], Tours[2]}
          /\ \A t \in 1..2, d \in Dates : PublishedOn(matches, Tours[t], d) = ScheduledOn(applied.arg[t], d)

\* The first tour gave a match without a date and a dated one that names
\* another tour: the one published match is the dated one, under the first
\* tour's code.
C22_Witness ==
    /\ applied.fn = "upcoming"
    /\ applied.arg = <<<<Obj([Player1ID |-> PyInt(2)]), Obj([StartDate |-> PyStr(May1T10), Tour |-> PyStr(<<"x">>)])>>, <<>>>>
    /\ Len(applied.out.matches) = 1
    /\ applied.out.matches[1].Tour = Tours[1] /\ applied.out.matches[1].ScheduledDate = May1T10

\* The place of a date in the lexicographic order of the dates.
DateRank(d) == CASE d = May1T09 -> 1 [] d = May1T10 -> 2 [] OTHER -> 3

\* C23: the published upcoming matches are in ascending lexicographic order
\* of their ScheduledDate strings, matches of one date in the order they were
\* built, and count is the length of the list.
C23_SortedByDateString ==
    applied.fn = "upcoming" =>
      LET matches == applied.out.matches
          built == Decorated(Tagged([k \in 1..Len(applied.arg[1]) |-> Item(applied.arg[1][k])], Tours[1])
                               \o Tagged([k \in 1..Len(applied.arg[2]) |-> Item(applied.arg[2][k])], Tours[2]))
      IN  /\ applied.out.count = Len(matches)
          /\ \A k \in 1..(Len(matches) - 1) :
               DateRank(matches[k].ScheduledDate) <= DateRank(matches[k + 1].ScheduledDate)
          /\ \A d \in Dates :
               SelectSeq(matches, LAMBDA x : x.ScheduledDate = d) = SelectSeq(built, LAMBDA x : x.ScheduledDate = d)

\* Matches fetched for May 2, May 1 10:00 and May 1 09:00 are published as
\* May 1 09:00, May 1 10:00, May 2.
C23_Witness ==
    /\ applied.fn = "upcoming"
    /\ Len(applied.arg[1]) = 3
    /\ DateOf(applied.arg[1][1]) = May2 /\ DateOf(applied.arg[1][2]) = May1T10 /\ DateOf(applied.arg[1][3]) = May1T09
    /\ applied.arg[2] = <<>>
    /\ applied.out.count = 3
    /\ applied.out.matches[1].ScheduledDate = May1T09
    /\ applied.out.matches[2].ScheduledDate = May1T10
    /\ applied.out.matches[3].ScheduledDate = May2

\* ------------------------------------------------------- upcoming backfill

\* The players the matches name: the ids that are not None.
NamedIn(matches) ==
    {matches[k].Player1ID.i : k \in {j \in 1..Len(matches) : matches[j].Player1ID # None}}
      \cup {matches[k].Player2ID.i : k \in {j \in 1..Len(matches) : matches[j].Player2ID # None}}

\* The upcoming poller has its matches and starts a backfill in this step.
UpcomingBackfills == pc["upcoming"] = "get_upcoming_matches" /\ pc'["upcoming"] = "get_player"

\* The upcoming poller has its matches and publishes them in this step.
UpcomingPublishes ==
    /\ pc["upcoming"] = "get_upcoming_matches" /\ pc'["upcoming"] = "idle"
    /\ last_exception'["upcoming"] = "none"

\* The save of the backfill returns in this step and the result is
\* published.
UpcomingSaved ==
    /\ pc["upcoming"] = "save" /\ pc'["upcoming"] = "idle"
    /\ last_exception'["upcoming"] = "none" /\ raised'["upcoming"] = NoRaise

\* C24: the ids a refresh of the upcoming poller hands to the paced fetch
\* are the players its dated matches name that the cache does not hold, each
\* once; with no such player the result is published with no player request,
\* the cache and the stored record untouched; and when the save of a backfill
\* returns, the result is published with every fetched id in the cache and in
\* the stored record.
C24_UpcomingBackfill ==
    [][/\ UpcomingBackfills =>
            LET f == loc'["upcoming"].fetch
            IN  /\ {f.ids[k] : k \in 1..Len(f.ids)} = NamedIn(loc'["upcoming"].decorated) \ DOMAIN players
                /\ Len(f.ids) = Cardinality({f.ids[k] : k \in 1..Len(f.ids)}) /\ f.ids # <<>>
                /\ players' = players /\ persisted' = persisted
       /\ UpcomingPublishes =>
            /\ NamedIn(data'["upcoming"].matches) \subseteq DOMAIN players
            /\ players' = players /\ persisted' = persisted
       /\ UpcomingSaved =>
            /\ \A id \in DOMAIN loc["upcoming"].fetch.out :
                 id \in DOMAIN players' /\ IntToStr(id) \in DOMAIN persisted'.players
            /\ NamedIn(data'["upcoming"].matches) \subseteq DOMAIN players']_vars

\* The upcoming poller alone has run: it has published matches that name
\* the player 0, whom it fetched, merged and stored.
C24_Witness ==
    /\ cycles["scores"] = 0 /\ cycles["monthly"] = 0
    /\ pc["upcoming"] = "idle" /\ data["upcoming"].has /\ raised["upcoming"] = NoRaise
    /\ 0 \in NamedIn(data["upcoming"].matches)
    /\ 0 \in DOMAIN players /\ "0" \in {k[1] : k \in {x \in DOMAIN persisted.players : Len(x) = 1}}

\* ------------------------------------------------------ names of a match

NameFields == {"Player1Name", "Player2Name"}

\* The matches a poller has published.
MatchesOf(p) == {data[p].matches[k] : k \in 1..Len(data[p].matches)}

\* C25 as stated: every match published by the upcoming poller and every
\* match published by the scores poller carries Player1Name and Player2Name.
C25_AllMatchesNamed ==
    \A p \in {"upcoming", "scores"} : \A m \in MatchesOf(p) : NameFields \subseteq DOMAIN m

\* C25: every match published by the scores poller carries its player ids
\* and a non-empty Player1Name and Player2Name; a match published by the
\* upcoming poller carries Tour, EventID, ScheduledDate, Player1ID and
\* Player2ID and nothing else.
C25_ScoresMatchesNamed ==
    /\ \A m \in MatchesOf("scores") :
         /\ NameFields \cup {"Player1ID", "Player2ID"} \subseteq DOMAIN m
         /\ m.Player1Name # <<>> /\ m.Player2Name # <<>>
    /\ \A m \in MatchesOf("upcoming") :
         DOMAIN m = {"Tour", "EventID", "ScheduledDate", "Player1ID", "Player2ID"}

\* Both pollers have published matches, the upcoming poller after it has
\* fetched the players of its matches.
C25_Witness ==
    /\ data["upcoming"].count > 0 /\ data["scores"].count > 0
    /\ raised["upcoming"] = NoRaise /\ pc["upcoming"] = "idle"
    /\ NamedIn(data["upcoming"].matches) # {}
    /\ NamedIn(data["upcoming"].matches) \subseteq DOMAIN players

\* ------------------------------------------------- numeric fields of scores

\* C26: no refresh of the scores poller ends with the error of a numeric
\* field of a raw match: a field that is missing or does not parse becomes
\* None or zero and the result is published.
C26_NumericFieldsNeverRaise == raised["scores"] # InBody("ValueError")

\* The fields read through as_int are defaulted: a raw match without a
\* Player2ID has been published with the id None and the name TBD.
C26_PlayerFieldsDefaulted ==
    /\ data["scores"].count > 0
    /\ \E k \in 1..Len(data["scores"].matches) :
         data["scores"].matches[k].Player2ID = None /\ data["scores"].matches[k].Player2Name = TBD

\* ----------------------------------------------------------- scores order

\* The place of a schedule date of the scores in their lexicographic order.
ScoresDateRank(d) == CASE d = <<>> -> 0 [] d = May1T10 -> 1 [] OTHER -> 2

\* How many members of seq are x.
Count(seq, x) == Cardinality({k \in 1..Len(seq) : seq[k] = x})

\* C27: the published matches of the scores poller are the built matches
\* in ascending order of the ScheduledDate string, those of one date in
\* ascending order of MatchID; count is their number.
C27_SortedByDateThenId ==
    applied.fn = "scores_result" =>
      LET matches == applied.out.matches
          built == ScoresMatches(applied.arg, NoPlayers, [i \in {} |-> NoEvent])
      IN  /\ applied.out.count = Len(matches) /\ Len(matches) = Len(applied.arg)
          /\ \A k \in 1..Len(built) : Count(matches, built[k]) = Count(built, built[k])
          /\ \A k \in 1..(Len(matches) - 1) :
               \/ ScoresDateRank(matches[k].ScheduledDate) < ScoresDateRank(matches[k + 1].ScheduledDate)
               \/ /\ matches[k].ScheduledDate = matches[k + 1].ScheduledDate
                  /\ matches[k].MatchID <= matches[k + 1].MatchID

\* Two matches with the empty date, of the ids 5 and 3 in this order, are
\* published as 3, 5.
C27_Witness ==
    /\ applied.fn = "scores_result"
    /\ applied.arg = <<Obj([ID |-> PyInt(5)]), Obj([ID |-> PyInt(3), ScheduledDate |-> PyStr(<<>>)])>>
    /\ applied.out.count = 2
    /\ applied.out.matches[1].MatchID = 3 /\ applied.out.matches[1].ScheduledDate = <<>>
    /\ applied.out.matches[2].MatchID = 5 /\ applied.out.matches[2].ScheduledDate = <<>>

\* ------------------------------------------------------ refresh services

\* The instances the handler has requested a refresh of the poller key for.
RequestedFor(key) ==
    {k \in 1..Len(services.call.requested) : services.call.requested[k][2] = key}

\* The counts of a handler are the requests it made, and the requests are
\* in the order of the service's pollers.
CountsAreRequests ==
    LET c == services.call
    IN  /\ \A key \in Pollers :
             Cardinality(RequestedFor(key)) = c.refreshed[key] + (IF c.pc = "await" /\ Head(c.keys) = key THEN 1 ELSE 0)
        /\ \A j, k \in 1..Len(c.requested) :
             j < k =>
               \E a, b \in 1..Len(ServiceKeys(c.service)) :
                 a <= b /\ ServiceKeys(c.service)[a] = c.requested[j][2] /\ ServiceKeys(c.service)[b] = c.requested[k][2]

\* C28: the handler of a refresh service goes through every instance and
\* comes to its end: it does not fail, and what it counts are the refreshes it
\* requested, of the pollers of the service in their order.
C28_ServiceRefreshesInstances == services.call.pc # "raised" /\ CountsAreRequests

\* The counting and the order alone, whether the handler ends or fails.
C28_CountsAreRequests == CountsAreRequests

\* refresh_all has ended with two instances, one of them without
\* coordinators: it refreshed the five pollers of the other, in order.
C28_RefreshAllDone ==
    /\ services.call.pc = "done" /\ services.call.service = "refresh_all"
    /\ Size(services.slots) = 2 /\ Cardinality(services.created) = 1
    /\ Len(services.call.requested) = 5
    /\ \A k \in 1..5 : services.call.requested[k][2] = ServiceKeys("refresh_all")[k]
    /\ \A key \in Pollers : services.call.refreshed[key] = 1

\* -------------------------------------------------------------- round trip

\* The key an id is stored under.
StoredKey(id) ==
    CASE id = 0 - 1 -> <<"-", "1">> [] id = 0 -> <<"0">> [] id = 7 -> <<"7">> [] OTHER -> <<"1", "0">>

\* C29: the record save writes holds every id under the string of its
\* digits, with its name, and the stamp; loading it gives the mapping and
\* the stamp that were saved; loading with no record gives the empty mapping
\* and no stamp.
C29_RoundTrip ==
    /\ applied.fn = "save_load" =>
         /\ DOMAIN applied.arg.players = {StoredKey(id) : id \in DOMAIN applied.cache}
         /\ \A id \in DOMAIN applied.cache : applied.arg.players[StoredKey(id)] = applied.cache[id]
         /\ applied.out.players = applied.cache
         /\ applied.out.last_refreshed = applied.arg.last_refreshed
    /\ applied.fn = "load_absent" =>
         applied.out.players = NoPlayers /\ applied.out.last_refreshed = None

\* A stamped cache of the ids -1 and 10 was saved and loaded.
C29_Witness ==
    /\ applied.fn = "save_load"
    /\ DOMAIN applied.cache = {0 - 1, 10}
    /\ applied.arg.last_refreshed = IsoFormat(MONTHLY_REFRESH_DAYS)
    /\ DOMAIN applied.arg.players = {<<"-", "1">>, <<"1", "0">>}
    /\ applied.out.players = applied.cache /\ applied.out.last_refreshed = IsoFormat(MONTHLY_REFRESH_DAYS)

\* ------------------------------------------------------------- second pass

\* The save of the scores poller's backfill has returned and the cycle has
\* read the names again, sorted and published.
ScoresSecondPass == pc["scores"] = "save" /\ pc'["scores"] = "idle" /\ raised'["scores"] = NoRaise

\* A match without its two names.
Unnamed(m) == [m EXCEPT !.Player1Name = TBD, !.Player2Name = TBD]

\* The name of no player, and of the player of an id that is not None.
NameOfId(ps, pid, name) ==
    IF pid = None THEN name = TBD ELSE pid.i \in DOMAIN ps /\ name = ps[pid.i]

\* The name of a player whose id is neither None nor 0; another id keeps
\* the name the first pass gave it.
NameOfTruthyId(ps, pid, name, before) ==
    IF pid # None /\ pid.i # 0 THEN pid.i \in DOMAIN ps /\ name = ps[pid.i] ELSE name = before

\* The published matches are the matches of the first pass but for their
\* names and their order.
SameButNames(after, before) ==
    /\ Len(after) = Len(before)
    /\ \A k \in 1..Len(before) :
         Cardinality({j \in 1..Len(after) : Unnamed(after[j]) = Unnamed(before[k])})
           = Cardinality({j \in 1..Len(before) : Unnamed(before[j]) = Unnamed(before[k])})

PublishedIds(p) ==
    {v.i : v \in {x \in {data[p].matches[k].Player1ID : k \in 1..Len(data[p].matches)}
                       \cup {data[p].matches[k].Player2ID : k \in 1..Len(data[p].matches)} : x # None}}

\* The upcoming poller and the scores poller have each run one cycle, the
\* only cycles so far, whose backfill fetched a player and was saved: the
\* player 0 of an upcoming match and the player -1 of a near-live match are
\* in no record the cache is loaded from and are fetched by no other poller.
BothBackfilled ==
    /\ cycles["upcoming"] = 1 /\ cycles["scores"] = 1 /\ Started = 2
    /\ pc["upcoming"] = "idle" /\ pc["scores"] = "idle"
    /\ raised["upcoming"] = NoRaise /\ raised["scores"] = NoRaise
    /\ data["upcoming"].has /\ 0 \in PublishedIds("upcoming")
    /\ data["scores"].has /\ (0 - 1) \in PublishedIds("scores")

\* The cache holds every player either poller fetched.
C31_NoFetchedPlayerLost ==
    BothBackfilled => {0, 0 - 1} \subseteq DOMAIN players

\* C31: once the backfills of the upcoming poller and of the scores poller
\* have both completed, the cache holds every player either of them fetched
\* and the stored record is the record of the cache.
C31_NoUpdateLost ==
    BothBackfilled =>
        /\ {0, 0 - 1} \subseteq DOMAIN players
        /\ persisted = SaveRecord(players, last_refreshed)

\* Both backfills have completed and the stored record is the record of the
\* cache.
C31_BothStored ==
    BothBackfilled /\ persisted = SaveRecord(players, last_refreshed)

\* ------------------------------------------------- failed inline refresh

\* The initialization awaits the refresh of the empty cache.
InlineRefresh == init.pc = "monthly"

\* The refresh the initialization awaited has raised and the handler of the
\* initialization has logged it.
InlineRefreshFailed ==
    init.pc = "logged" /\ bg = NoTask /\ raised["monthly"].site = "body" /\ init.raised = raised["monthly"].type

\* Nothing of the entry's pollers exists: no coordinator was created or
\* stored, no platform was forwarded, no first refresh was handed to a task
\* and no poller has run a cycle.
NothingCreated ==
    /\ ~init.created /\ ~registry.coords /\ ~registry.platforms_loaded
    /\ first = NoTask
    /\ \A p \in Pollers : cycles[p] = 0 /\ pc[p] = "idle"

\* C32: with an empty cache the initialization awaits the refresh before it
\* creates the pollers; a refresh that raises ends the initialization in its
\* handler, and from then on no poller is created, no platform forwarded,
\* platforms_loaded is false and no first refresh is started.
C32_FailedInlineRefresh ==
    /\ []((InlineRefresh \/ InlineRefreshFailed) => NothingCreated)
    /\ [][InlineRefresh /\ raised'["monthly"].site = "body" /\ pc'["monthly"] = "idle"
            => InlineRefreshFailed' /\ NothingCreated']_vars

\* The refresh of the empty cache has failed on a request and the entry,
\* still set up, has nothing of its pollers.
C32_Witness ==
    /\ InlineRefreshFailed /\ init.raised = "ClientError"
    /\ players = NoPlayers /\ registry.entry /\ setup = "returned"
    /\ NothingCreated

\* ------------------------------------------------------ tasks after unload

\* async_unload_entry has returned True and the entry's data is gone.
Unloaded == setup = "unloaded"

\* A request of the refresh of the cache is issued in the step.
RefreshRequests ==
    /\ pc'["monthly"] \in {"get_current_season", "get_rankings", "get_player"}
    /\ pc'["monthly"] # pc["monthly"] \/ loc'["monthly"] # loc["monthly"]

\* The cache or its stored record is written in the step.
CacheWritten == players' # players \/ last_refreshed' # last_refreshed \/ persisted' # persisted

\* The first-refresh task calls the refresh of a poller in the step.
FirstRefreshes == first' # first /\ first'.pc \in Pollers

\* The initialization task is over once the unload has returned.
C33_InitStopped ==
    Unloaded => init.pc \notin {"scheduled", "monthly", "forward"}

\* C33: after async_unload_entry has returned True no task of the entry
\* issues a request, writes the cache or its stored record, or calls the
\* refresh of a poller.
C33_UnloadStopsTasks ==
    [][Unloaded => ~RefreshRequests /\ ~CacheWritten /\ ~FirstRefreshes]_vars

\* The entry is unloaded and the first-refresh task is not done, while the
\* background refresh awaits a player request it has issued.
C33_TasksRunUnloaded ==
    /\ Unloaded /\ init.pc = "done"
    /\ bg.pc = "running" /\ pc["monthly"] = "get_player"
    /\ first.pc \in Pollers

\* ------------------------------------------- registry changed under a call

\* The handler of a refresh service is resumed from the refresh it awaited.
Resumed == services.call.pc = "await" /\ services'.call # services.call

\* The instances whose poller `key` the handler has asked to refresh, one
\* for each request.
Visits(call, key) == SelectSeq(call.requested, LAMBDA r : r[2] = key)

\* C34: a handler resumed from the refresh of one instance goes on to the
\* next instance or to its end whatever was set up or unloaded meanwhile: it
\* does not raise, and it has asked no instance twice for the same poller.
C34_ResumedCompletes ==
    [][Resumed =>
         /\ services'.call.pc # "raised"
         /\ \A key \in Pollers :
              \A j, k \in 1..Len(Visits(services'.call, key)) :
                 j # k => Visits(services'.call, key)[j] # Visits(services'.call, key)[k]]_vars

\* The handler of refresh_all has raised after the refresh of the season
\* poller of one instance, with two instances in the registry.
C34_RaisedAfterWait ==
    /\ services.call.pc = "raised" /\ services.call.service = "refresh_all"
    /\ Len(services.call.requested) = 1 /\ services.call.refreshed["season"] = 1
    /\ Size(services.slots) = 2

\* ------------------------------------------------ services and the registry

\* The number of instances in the registry.
Instances(sv) == Cardinality({k \in 1..Len(sv.slots) : sv.slots[k] # 0})

\* An instance is set up in the step.
SetsUp == Instances(services') > Instances(services)

\* An unload of the platforms returns False in the step.
UnloadFails == services'.unloading # services.unloading /\ services'.unloading \subseteq services.unloading
                 /\ Instances(services') = Instances(services)

\* C35: the six services are registered exactly while the registry holds an
\* instance: the setup into an empty registry registers them, a setup into a
\* registry that holds an instance does not register again, a failed unload
\* changes neither the registry nor the services, and they are removed only
\* by the unload of the last instance.
C35_ServicesWhileEntries ==
    /\ [](services.registered <=> Instances(services) > 0)
    /\ [](services.registrations - services.removals = IF services.registered THEN 1 ELSE 0)
    /\ [][SetsUp => services'.registrations =
                      services.registrations + (IF Instances(services) = 0 THEN 1 ELSE 0)]_vars
    /\ [][UnloadFails => services'.slots = services.slots /\ services'.registered
                           /\ services'.removals = services.removals]_vars
    /\ [][services'.removals # services.removals =>
            Instances(services) = 1 /\ Instances(services') = 0 /\ services'.removals = services.removals + 1]_vars

\* The services were registered, removed with the last instance and
\* registered again; two instances are set up since and the unload of one of
\* them has failed: the services are registered, for the second time.
C35_Witness ==
    /\ services.registered /\ Instances(services) = 2
    /\ services.registrations = 2 /\ services.removals = 1
    /\ services.returned = "False"

\* ------------------------------------------------------- the cache grows

\* The ids the cache holds.
CachedIds == DOMAIN players

\* The ids a running paced fetch has asked for or has still to ask for.
Fetching == UNION {Asked(t) : t \in {u \in Fetchers : pc[u] = "get_player"}}

\* C36: no step of any task removes an id from the cache (a merge, a failed
\* or cancelled fetch, a failed save, a cancelled refresh), and a step that
\* changes the name of an id or adds an id is the merge of a paced fetch that
\* asked for that id.
C36_CacheOnlyGrows ==
    [][/\ CachedIds \subseteq CachedIds'
       /\ \A id \in CachedIds' :
            (id \notin CachedIds \/ players'[id] # players[id]) => id \in Fetching]_vars

\* The refresh of a cache that held player 1 alone has merged its batch: it
\* wrote player 1 again and added another player, and awaits its save while
\* the stored record is still the one the cache was loaded from.
C36_Witness ==
    /\ pc["monthly"] = "save" /\ Started = 1
    /\ DOMAIN persisted.players = {<<"1">>}
    /\ 1 \in DOMAIN loc["monthly"].fetch.out
    /\ 1 \in CachedIds /\ CachedIds # {1}

\* -------------------------------------------------------------- termination

\* A request of the fetch is in _get_json: sent, or asleep before it is
\* sent again.
InRequest == client.pc \in {"get", "sleep"}

\* _get_json has returned the payload or raised.
RequestEnded == client.pc \in {"returned", "raised"}

\* The paced fetch has been called and has not ended.
FetchRunning == applied.fn = "paced_player_fetch" /\ applied.out.pc \in {"get_player", "sleep"}

\* The paced fetch has returned its payloads or raised.
FetchEnded == applied.fn = "paced_player_fetch" /\ applied.out.pc \in {"returned", "raised"}

\* From some time on the server answers no request with a 403.
No403InTheEnd == <>[](client.answer.status # 403)

\* C37: if the server stops answering 403 at some time, every request in
\* _get_json returns or raises and every paced fetch returns or raises; and
\* a request ends, and the fetch goes on, only on an answer that is no 403.
C37_Terminates ==
    /\ No403InTheEnd => ((InRequest ~> RequestEnded) /\ (FetchRunning ~> FetchEnded))
    /\ [][InRequest /\ RequestEnded' => client'.answer.status # 403]_vars
    /\ [](client.pc = "sleep" => FetchRunning /\ applied.out.pc = "get_player")

\* The statement without its assumption: every paced fetch returns or raises.
C37_AlwaysTerminates == FetchRunning ~> FetchEnded

\* The second request of a fetch has been answered 403 on all of MaxAttempts
\* attempts and sleeps before it is sent again, the fetch awaiting it.
C37_Witness ==
    /\ FetchRunning /\ applied.arg = <<1>> /\ 2 \in DOMAIN applied.out.out
    /\ client.pc = "sleep" /\ client.attempt = MaxAttempts /\ client.answer.status = 403
    /\ client.slept = 60 * (MaxAttempts - 1)

====
